---- MODULE Spec2Model ----
(***************************************************************************)
(* Model of frappe/api.py: the REST dispatch layer (handle and            *)
(* _RESTAPIHandler) and the authentication resolver (validate_auth and    *)
(* its stages).                                                           *)
(*                                                                         *)
(* Text that the code parses (the Authorization header, the request path, *)
(* the fields parameter) is a sequence of one-character strings, so that  *)
(* split, lower, base64 decoding and the like are computed as the code    *)
(* computes them.  Names the code only passes around (users, record       *)
(* names of the credential store, hook names) are plain strings.          *)
(***************************************************************************)
EXTENDS Integers, Sequences, FiniteSets, TLC

\* ------------------------------------------------------------------ bounds
MaxRequests == 2
MaxRouterRequests == 1
MaxWorkers == 2

\* ------------------------------------------------------------ text helpers
\* Python's None where a text value is expected: no text equals it, since
\* every element of a text is a single character.
None == <<"None">>

DigitChars == <<"0","1","2","3","4","5","6","7","8","9">>

\* The printable ASCII characters, code 32 (space) to code 126.  The grave
\* accent (code 96) is written "\\x96".
Ascii ==
    <<" ","!","\"","#","$","%","&","'","(",")","*","+",",","-",".","/">>
    \o DigitChars \o <<":",";","<","=",">","?","@">>
    \o <<"A","B","C","D","E","F","G","H","I","J","K","L","M",
         "N","O","P","Q","R","S","T","U","V","W","X","Y","Z">>
    \o <<"[","\\","]","^","_","\\x96">>
    \o <<"a","b","c","d","e","f","g","h","i","j","k","l","m",
         "n","o","p","q","r","s","t","u","v","w","x","y","z">>
    \o <<"{","|","}","~">>

\* chr(n): the character of code point n.  A character outside printable
\* ASCII is written "\\x<decimal code>", but for the four TLA+ can spell:
\* tab, line feed, form feed and carriage return.
Chr(n) ==
    IF n >= 32 /\ n <= 126 THEN Ascii[n - 31]
    ELSE CASE n = 9  -> "\t"
           [] n = 10 -> "\n"
           [] n = 12 -> "\f"
           [] n = 13 -> "\r"
           [] OTHER  -> "\\x" \o ToString(n)

IndexOf(c, tbl) ==
    IF \E i \in 1..Len(tbl) : tbl[i] = c
    THEN CHOOSE i \in 1..Len(tbl) : tbl[i] = c
    ELSE 0

\* ------------------------------------------------------------ letter case
\* The tables below are those of the Unicode 14.0.0 character database that
\* str.lower(), str.title() and str.islower() consult.  A row <<lo, hi, step>>
\* stands for the code points lo, lo + step, ... up to hi; a fourth entry is
\* the distance from each such code point to its image.
Points(r) == { r[1] + r[3] * k : k \in 0..((r[2] - r[1]) \div r[3]) }

\* str.lower() on one character: the characters that change, each with the
\* text it becomes.  U+0130 is the one character that becomes two.
LowerMap ==
    LET rows == {
      <<65,90,1,32>>, <<192,214,1,32>>, <<216,222,1,32>>, <<256,302,2,1>>,
      <<306,310,2,1>>, <<313,327,2,1>>, <<330,374,2,1>>, <<376,376,1,-121>>,
      <<377,381,2,1>>, <<385,385,1,210>>, <<386,388,2,1>>, <<390,390,1,206>>,
      <<391,391,1,1>>, <<393,394,1,205>>, <<395,395,1,1>>, <<398,398,1,79>>,
      <<399,399,1,202>>, <<400,400,1,203>>, <<401,401,1,1>>,
      <<403,403,1,205>>, <<404,404,1,207>>, <<406,406,1,211>>,
      <<407,407,1,209>>, <<408,408,1,1>>, <<412,412,1,211>>,
      <<413,413,1,213>>, <<415,415,1,214>>, <<416,420,2,1>>,
      <<422,422,1,218>>, <<423,423,1,1>>, <<425,425,1,218>>, <<428,428,1,1>>,
      <<430,430,1,218>>, <<431,431,1,1>>, <<433,434,1,217>>, <<435,437,2,1>>,
      <<439,439,1,219>>, <<440,440,1,1>>, <<444,444,1,1>>, <<452,452,1,2>>,
      <<453,453,1,1>>, <<455,455,1,2>>, <<456,456,1,1>>, <<458,458,1,2>>,
      <<459,475,2,1>>, <<478,494,2,1>>, <<497,497,1,2>>, <<498,500,2,1>>,
      <<502,502,1,-97>>, <<503,503,1,-56>>, <<504,542,2,1>>,
      <<544,544,1,-130>>, <<546,562,2,1>>, <<570,570,1,10795>>,
      <<571,571,1,1>>, <<573,573,1,-163>>, <<574,574,1,10792>>,
      <<577,577,1,1>>, <<579,579,1,-195>>, <<580,580,1,69>>, <<581,581,1,71>>,
      <<582,590,2,1>>, <<880,882,2,1>>, <<886,886,1,1>>, <<895,895,1,116>>,
      <<902,902,1,38>>, <<904,906,1,37>>, <<908,908,1,64>>, <<910,911,1,63>>,
      <<913,929,1,32>>, <<931,939,1,32>>, <<975,975,1,8>>, <<984,1006,2,1>>,
      <<1012,1012,1,-60>>, <<1015,1015,1,1>>, <<1017,1017,1,-7>>,
      <<1018,1018,1,1>>, <<1021,1023,1,-130>>, <<1024,1039,1,80>>,
      <<1040,1071,1,32>>, <<1120,1152,2,1>>, <<1162,1214,2,1>>,
      <<1216,1216,1,15>>, <<1217,1229,2,1>>, <<1232,1326,2,1>>,
      <<1329,1366,1,48>>, <<4256,4293,1,7264>>, <<4295,4295,1,7264>>,
      <<4301,4301,1,7264>>, <<5024,5103,1,38864>>, <<5104,5109,1,8>>,
      <<7312,7354,1,-3008>>, <<7357,7359,1,-3008>>, <<7680,7828,2,1>>,
      <<7838,7838,1,-7615>>, <<7840,7934,2,1>>, <<7944,7951,1,-8>>,
      <<7960,7965,1,-8>>, <<7976,7983,1,-8>>, <<7992,7999,1,-8>>,
      <<8008,8013,1,-8>>, <<8025,8031,2,-8>>, <<8040,8047,1,-8>>,
      <<8072,8079,1,-8>>, <<8088,8095,1,-8>>, <<8104,8111,1,-8>>,
      <<8120,8121,1,-8>>, <<8122,8123,1,-74>>, <<8124,8124,1,-9>>,
      <<8136,8139,1,-86>>, <<8140,8140,1,-9>>, <<8152,8153,1,-8>>,
      <<8154,8155,1,-100>>, <<8168,8169,1,-8>>, <<8170,8171,1,-112>>,
      <<8172,8172,1,-7>>, <<8184,8185,1,-128>>, <<8186,8187,1,-126>>,
      <<8188,8188,1,-9>>, <<8486,8486,1,-7517>>, <<8490,8490,1,-8383>>,
      <<8491,8491,1,-8262>>, <<8498,8498,1,28>>, <<8544,8559,1,16>>,
      <<8579,8579,1,1>>, <<9398,9423,1,26>>, <<11264,11311,1,48>>,
      <<11360,11360,1,1>>, <<11362,11362,1,-10743>>, <<11363,11363,1,-3814>>,
      <<11364,11364,1,-10727>>, <<11367,11371,2,1>>, <<11373,11373,1,-10780>>,
      <<11374,11374,1,-10749>>, <<11375,11375,1,-10783>>,
      <<11376,11376,1,-10782>>, <<11378,11378,1,1>>, <<11381,11381,1,1>>,
      <<11390,11391,1,-10815>>, <<11392,11490,2,1>>, <<11499,11501,2,1>>,
      <<11506,11506,1,1>>, <<42560,42604,2,1>>, <<42624,42650,2,1>>,
      <<42786,42798,2,1>>, <<42802,42862,2,1>>, <<42873,42875,2,1>>,
      <<42877,42877,1,-35332>>, <<42878,42886,2,1>>, <<42891,42891,1,1>>,
      <<42893,42893,1,-42280>>, <<42896,42898,2,1>>, <<42902,42920,2,1>>,
      <<42922,42922,1,-42308>>, <<42923,42923,1,-42319>>,
      <<42924,42924,1,-42315>>, <<42925,42925,1,-42305>>,
      <<42926,42926,1,-42308>>, <<42928,42928,1,-42258>>,
      <<42929,42929,1,-42282>>, <<42930,42930,1,-42261>>,
      <<42931,42931,1,928>>, <<42932,42946,2,1>>, <<42948,42948,1,-48>>,
      <<42949,42949,1,-42307>>, <<42950,42950,1,-35384>>, <<42951,42953,2,1>>,
      <<42960,42960,1,1>>, <<42966,42968,2,1>>, <<42997,42997,1,1>>,
      <<65313,65338,1,32>>, <<66560,66599,1,40>>, <<66736,66771,1,40>>,
      <<66928,66938,1,39>>, <<66940,66954,1,39>>, <<66956,66962,1,39>>,
      <<66964,66965,1,39>>, <<68736,68786,1,64>>, <<71840,71871,1,32>>,
      <<93760,93791,1,32>>, <<125184,125217,1,34>> }
        pairs == UNION { { <<Chr(n), <<Chr(n + r[4])>>>> : n \in Points(r) }
                         : r \in rows }
                 \cup { <<Chr(304), <<"i", Chr(775)>>>> }
    IN  [c \in { p[1] : p \in pairs } |-> (CHOOSE p \in pairs : p[1] = c)[2]]

\* The title-case mapping of one character: the characters that change, each
\* with the text it becomes (two or three characters for the ligatures and
\* the like listed last).
TitleMap ==
    LET rows == {
      <<97,122,1,-32>>, <<181,181,1,743>>, <<224,246,1,-32>>,
      <<248,254,1,-32>>, <<255,255,1,121>>, <<257,303,2,-1>>,
      <<305,305,1,-232>>, <<307,311,2,-1>>, <<314,328,2,-1>>,
      <<331,375,2,-1>>, <<378,382,2,-1>>, <<383,383,1,-300>>,
      <<384,384,1,195>>, <<387,389,2,-1>>, <<392,392,1,-1>>, <<396,396,1,-1>>,
      <<402,402,1,-1>>, <<405,405,1,97>>, <<409,409,1,-1>>, <<410,410,1,163>>,
      <<414,414,1,130>>, <<417,421,2,-1>>, <<424,424,1,-1>>, <<429,429,1,-1>>,
      <<432,432,1,-1>>, <<436,438,2,-1>>, <<441,441,1,-1>>, <<445,445,1,-1>>,
      <<447,447,1,56>>, <<452,452,1,1>>, <<454,454,1,-1>>, <<455,455,1,1>>,
      <<457,457,1,-1>>, <<458,458,1,1>>, <<460,476,2,-1>>, <<477,477,1,-79>>,
      <<479,495,2,-1>>, <<497,497,1,1>>, <<499,501,2,-1>>, <<505,543,2,-1>>,
      <<547,563,2,-1>>, <<572,572,1,-1>>, <<575,576,1,10815>>,
      <<578,578,1,-1>>, <<583,591,2,-1>>, <<592,592,1,10783>>,
      <<593,593,1,10780>>, <<594,594,1,10782>>, <<595,595,1,-210>>,
      <<596,596,1,-206>>, <<598,599,1,-205>>, <<601,601,1,-202>>,
      <<603,603,1,-203>>, <<604,604,1,42319>>, <<608,608,1,-205>>,
      <<609,609,1,42315>>, <<611,611,1,-207>>, <<613,613,1,42280>>,
      <<614,614,1,42308>>, <<616,616,1,-209>>, <<617,617,1,-211>>,
      <<618,618,1,42308>>, <<619,619,1,10743>>, <<620,620,1,42305>>,
      <<623,623,1,-211>>, <<625,625,1,10749>>, <<626,626,1,-213>>,
      <<629,629,1,-214>>, <<637,637,1,10727>>, <<640,640,1,-218>>,
      <<642,642,1,42307>>, <<643,643,1,-218>>, <<647,647,1,42282>>,
      <<648,648,1,-218>>, <<649,649,1,-69>>, <<650,651,1,-217>>,
      <<652,652,1,-71>>, <<658,658,1,-219>>, <<669,669,1,42261>>,
      <<670,670,1,42258>>, <<837,837,1,84>>, <<881,883,2,-1>>,
      <<887,887,1,-1>>, <<891,893,1,130>>, <<940,940,1,-38>>,
      <<941,943,1,-37>>, <<945,961,1,-32>>, <<962,962,1,-31>>,
      <<963,971,1,-32>>, <<972,972,1,-64>>, <<973,974,1,-63>>,
      <<976,976,1,-62>>, <<977,977,1,-57>>, <<981,981,1,-47>>,
      <<982,982,1,-54>>, <<983,983,1,-8>>, <<985,1007,2,-1>>,
      <<1008,1008,1,-86>>, <<1009,1009,1,-80>>, <<1010,1010,1,7>>,
      <<1011,1011,1,-116>>, <<1013,1013,1,-96>>, <<1016,1016,1,-1>>,
      <<1019,1019,1,-1>>, <<1072,1103,1,-32>>, <<1104,1119,1,-80>>,
      <<1121,1153,2,-1>>, <<1163,1215,2,-1>>, <<1218,1230,2,-1>>,
      <<1231,1231,1,-15>>, <<1233,1327,2,-1>>, <<1377,1414,1,-48>>,
      <<5112,5117,1,-8>>, <<7296,7296,1,-6254>>, <<7297,7297,1,-6253>>,
      <<7298,7298,1,-6244>>, <<7299,7300,1,-6242>>, <<7301,7301,1,-6243>>,
      <<7302,7302,1,-6236>>, <<7303,7303,1,-6181>>, <<7304,7304,1,35266>>,
      <<7545,7545,1,35332>>, <<7549,7549,1,3814>>, <<7566,7566,1,35384>>,
      <<7681,7829,2,-1>>, <<7835,7835,1,-59>>, <<7841,7935,2,-1>>,
      <<7936,7943,1,8>>, <<7952,7957,1,8>>, <<7968,7975,1,8>>,
      <<7984,7991,1,8>>, <<8000,8005,1,8>>, <<8017,8023,2,8>>,
      <<8032,8039,1,8>>, <<8048,8049,1,74>>, <<8050,8053,1,86>>,
      <<8054,8055,1,100>>, <<8056,8057,1,128>>, <<8058,8059,1,112>>,
      <<8060,8061,1,126>>, <<8064,8071,1,8>>, <<8080,8087,1,8>>,
      <<8096,8103,1,8>>, <<8112,8113,1,8>>, <<8115,8115,1,9>>,
      <<8126,8126,1,-7205>>, <<8131,8131,1,9>>, <<8144,8145,1,8>>,
      <<8160,8161,1,8>>, <<8165,8165,1,7>>, <<8179,8179,1,9>>,
      <<8526,8526,1,-28>>, <<8560,8575,1,-16>>, <<8580,8580,1,-1>>,
      <<9424,9449,1,-26>>, <<11312,11359,1,-48>>, <<11361,11361,1,-1>>,
      <<11365,11365,1,-10795>>, <<11366,11366,1,-10792>>,
      <<11368,11372,2,-1>>, <<11379,11379,1,-1>>, <<11382,11382,1,-1>>,
      <<11393,11491,2,-1>>, <<11500,11502,2,-1>>, <<11507,11507,1,-1>>,
      <<11520,11557,1,-7264>>, <<11559,11559,1,-7264>>,
      <<11565,11565,1,-7264>>, <<42561,42605,2,-1>>, <<42625,42651,2,-1>>,
      <<42787,42799,2,-1>>, <<42803,42863,2,-1>>, <<42874,42876,2,-1>>,
      <<42879,42887,2,-1>>, <<42892,42892,1,-1>>, <<42897,42899,2,-1>>,
      <<42900,42900,1,48>>, <<42903,42921,2,-1>>, <<42933,42947,2,-1>>,
      <<42952,42954,2,-1>>, <<42961,42961,1,-1>>, <<42967,42969,2,-1>>,
      <<42998,42998,1,-1>>, <<43859,43859,1,-928>>, <<43888,43967,1,-38864>>,
      <<65345,65370,1,-32>>, <<66600,66639,1,-40>>, <<66776,66811,1,-40>>,
      <<66967,66977,1,-39>>, <<66979,66993,1,-39>>, <<66995,67001,1,-39>>,
      <<67003,67004,1,-39>>, <<68800,68850,1,-64>>, <<71872,71903,1,-32>>,
      <<93792,93823,1,-32>>, <<125218,125251,1,-34>> }
        full == {
      <<223, <<83,115>>>>, <<329, <<700,78>>>>, <<496, <<74,780>>>>,
      <<912, <<921,776,769>>>>, <<944, <<933,776,769>>>>,
      <<1415, <<1333,1410>>>>, <<7830, <<72,817>>>>, <<7831, <<84,776>>>>,
      <<7832, <<87,778>>>>, <<7833, <<89,778>>>>, <<7834, <<65,702>>>>,
      <<8016, <<933,787>>>>, <<8018, <<933,787,768>>>>,
      <<8020, <<933,787,769>>>>, <<8022, <<933,787,834>>>>,
      <<8114, <<8122,837>>>>, <<8116, <<902,837>>>>, <<8118, <<913,834>>>>,
      <<8119, <<913,834,837>>>>, <<8130, <<8138,837>>>>,
      <<8132, <<905,837>>>>, <<8134, <<919,834>>>>, <<8135, <<919,834,837>>>>,
      <<8146, <<921,776,768>>>>, <<8147, <<921,776,769>>>>,
      <<8150, <<921,834>>>>, <<8151, <<921,776,834>>>>,
      <<8162, <<933,776,768>>>>, <<8163, <<933,776,769>>>>,
      <<8164, <<929,787>>>>, <<8166, <<933,834>>>>, <<8167, <<933,776,834>>>>,
      <<8178, <<8186,837>>>>, <<8180, <<911,837>>>>, <<8182, <<937,834>>>>,
      <<8183, <<937,834,837>>>>, <<64256, <<70,102>>>>, <<64257, <<70,105>>>>,
      <<64258, <<70,108>>>>, <<64259, <<70,102,105>>>>,
      <<64260, <<70,102,108>>>>, <<64261, <<83,116>>>>, <<64262, <<83,116>>>>,
      <<64275, <<1348,1398>>>>, <<64276, <<1348,1381>>>>,
      <<64277, <<1348,1387>>>>, <<64278, <<1358,1398>>>>,
      <<64279, <<1348,1389>>>> }
        pairs == UNION { { <<Chr(n), <<Chr(n + r[4])>>>> : n \in Points(r) }
                         : r \in rows }
                 \cup { <<Chr(p[1]), [i \in 1..Len(p[2]) |-> Chr(p[2][i])]>>
                        : p \in full }
    IN  [c \in { p[1] : p \in pairs } |-> (CHOOSE p \in pairs : p[1] = c)[2]]

\* The characters with the property Lowercase: str.islower() on one
\* character.
LowercaseChars ==
    { Chr(n) : n \in UNION { Points(r) : r \in {
      <<97,122,1>>, <<170,170,1>>, <<181,181,1>>, <<186,186,1>>,
      <<223,246,1>>, <<248,255,1>>, <<257,311,2>>, <<312,328,2>>,
      <<329,375,2>>, <<378,382,2>>, <<383,384,1>>, <<387,387,1>>,
      <<389,389,1>>, <<392,392,1>>, <<396,397,1>>, <<402,402,1>>,
      <<405,405,1>>, <<409,411,1>>, <<414,414,1>>, <<417,421,2>>,
      <<424,424,1>>, <<426,427,1>>, <<429,429,1>>, <<432,432,1>>,
      <<436,436,1>>, <<438,438,1>>, <<441,442,1>>, <<445,447,1>>,
      <<454,454,1>>, <<457,457,1>>, <<460,476,2>>, <<477,495,2>>,
      <<496,496,1>>, <<499,499,1>>, <<501,501,1>>, <<505,563,2>>,
      <<564,569,1>>, <<572,572,1>>, <<575,576,1>>, <<578,578,1>>,
      <<583,591,2>>, <<592,659,1>>, <<661,696,1>>, <<704,705,1>>,
      <<736,740,1>>, <<837,837,1>>, <<881,881,1>>, <<883,883,1>>,
      <<887,887,1>>, <<890,893,1>>, <<912,912,1>>, <<940,974,1>>,
      <<976,977,1>>, <<981,983,1>>, <<985,1007,2>>, <<1008,1011,1>>,
      <<1013,1013,1>>, <<1016,1016,1>>, <<1019,1020,1>>, <<1072,1119,1>>,
      <<1121,1153,2>>, <<1163,1215,2>>, <<1218,1230,2>>, <<1231,1327,2>>,
      <<1376,1416,1>>, <<4304,4346,1>>, <<4349,4351,1>>, <<5112,5117,1>>,
      <<7296,7304,1>>, <<7424,7615,1>>, <<7681,7829,2>>, <<7830,7837,1>>,
      <<7839,7935,2>>, <<7936,7943,1>>, <<7952,7957,1>>, <<7968,7975,1>>,
      <<7984,7991,1>>, <<8000,8005,1>>, <<8016,8023,1>>, <<8032,8039,1>>,
      <<8048,8061,1>>, <<8064,8071,1>>, <<8080,8087,1>>, <<8096,8103,1>>,
      <<8112,8116,1>>, <<8118,8119,1>>, <<8126,8126,1>>, <<8130,8132,1>>,
      <<8134,8135,1>>, <<8144,8147,1>>, <<8150,8151,1>>, <<8160,8167,1>>,
      <<8178,8180,1>>, <<8182,8183,1>>, <<8305,8305,1>>, <<8319,8319,1>>,
      <<8336,8348,1>>, <<8458,8458,1>>, <<8462,8463,1>>, <<8467,8467,1>>,
      <<8495,8495,1>>, <<8500,8500,1>>, <<8505,8505,1>>, <<8508,8509,1>>,
      <<8518,8521,1>>, <<8526,8526,1>>, <<8560,8575,1>>, <<8580,8580,1>>,
      <<9424,9449,1>>, <<11312,11359,1>>, <<11361,11361,1>>,
      <<11365,11366,1>>, <<11368,11372,2>>, <<11377,11377,1>>,
      <<11379,11380,1>>, <<11382,11389,1>>, <<11393,11491,2>>,
      <<11492,11492,1>>, <<11500,11500,1>>, <<11502,11502,1>>,
      <<11507,11507,1>>, <<11520,11557,1>>, <<11559,11559,1>>,
      <<11565,11565,1>>, <<42561,42605,2>>, <<42625,42651,2>>,
      <<42652,42653,1>>, <<42787,42799,2>>, <<42800,42801,1>>,
      <<42803,42863,2>>, <<42864,42872,1>>, <<42874,42874,1>>,
      <<42876,42876,1>>, <<42879,42887,2>>, <<42892,42892,1>>,
      <<42894,42894,1>>, <<42897,42897,1>>, <<42899,42901,1>>,
      <<42903,42921,2>>, <<42927,42927,1>>, <<42933,42947,2>>,
      <<42952,42952,1>>, <<42954,42954,1>>, <<42961,42969,2>>,
      <<42998,42998,1>>, <<43000,43002,1>>, <<43824,43866,1>>,
      <<43868,43880,1>>, <<43888,43967,1>>, <<64256,64262,1>>,
      <<64275,64279,1>>, <<65345,65370,1>>, <<66600,66639,1>>,
      <<66776,66811,1>>, <<66967,66977,1>>, <<66979,66993,1>>,
      <<66995,67001,1>>, <<67003,67004,1>>, <<67456,67456,1>>,
      <<67459,67461,1>>, <<67463,67504,1>>, <<67506,67514,1>>,
      <<68800,68850,1>>, <<71872,71903,1>>, <<93792,93823,1>>,
      <<119834,119859,1>>, <<119886,119892,1>>, <<119894,119911,1>>,
      <<119938,119963,1>>, <<119990,119993,1>>, <<119995,119995,1>>,
      <<119997,120003,1>>, <<120005,120015,1>>, <<120042,120067,1>>,
      <<120094,120119,1>>, <<120146,120171,1>>, <<120198,120223,1>>,
      <<120250,120275,1>>, <<120302,120327,1>>, <<120354,120379,1>>,
      <<120406,120431,1>>, <<120458,120485,1>>, <<120514,120538,1>>,
      <<120540,120545,1>>, <<120572,120596,1>>, <<120598,120603,1>>,
      <<120630,120654,1>>, <<120656,120661,1>>, <<120688,120712,1>>,
      <<120714,120719,1>>, <<120746,120770,1>>, <<120772,120777,1>>,
      <<120779,120779,1>>, <<122624,122633,1>>, <<122635,122654,1>>,
      <<125218,125251,1>> } } }

\* The cased characters (Lowercase, Uppercase or title-case letters).
CasedChars ==
    { Chr(n) : n \in UNION { Points(r) : r \in {
      <<65,90,1>>, <<97,122,1>>, <<170,170,1>>, <<181,181,1>>, <<186,186,1>>,
      <<192,214,1>>, <<216,246,1>>, <<248,442,1>>, <<444,447,1>>,
      <<452,659,1>>, <<661,696,1>>, <<704,705,1>>, <<736,740,1>>,
      <<837,837,1>>, <<880,883,1>>, <<886,887,1>>, <<890,893,1>>,
      <<895,895,1>>, <<902,902,1>>, <<904,906,1>>, <<908,908,1>>,
      <<910,929,1>>, <<931,1013,1>>, <<1015,1153,1>>, <<1162,1327,1>>,
      <<1329,1366,1>>, <<1376,1416,1>>, <<4256,4293,1>>, <<4295,4295,1>>,
      <<4301,4301,1>>, <<4304,4346,1>>, <<4349,4351,1>>, <<5024,5109,1>>,
      <<5112,5117,1>>, <<7296,7304,1>>, <<7312,7354,1>>, <<7357,7359,1>>,
      <<7424,7615,1>>, <<7680,7957,1>>, <<7960,7965,1>>, <<7968,8005,1>>,
      <<8008,8013,1>>, <<8016,8023,1>>, <<8025,8031,2>>, <<8032,8061,1>>,
      <<8064,8116,1>>, <<8118,8124,1>>, <<8126,8126,1>>, <<8130,8132,1>>,
      <<8134,8140,1>>, <<8144,8147,1>>, <<8150,8155,1>>, <<8160,8172,1>>,
      <<8178,8180,1>>, <<8182,8188,1>>, <<8305,8305,1>>, <<8319,8319,1>>,
      <<8336,8348,1>>, <<8450,8450,1>>, <<8455,8455,1>>, <<8458,8467,1>>,
      <<8469,8469,1>>, <<8473,8477,1>>, <<8484,8490,2>>, <<8491,8493,1>>,
      <<8495,8500,1>>, <<8505,8505,1>>, <<8508,8511,1>>, <<8517,8521,1>>,
      <<8526,8526,1>>, <<8544,8575,1>>, <<8579,8580,1>>, <<9398,9449,1>>,
      <<11264,11492,1>>, <<11499,11502,1>>, <<11506,11507,1>>,
      <<11520,11557,1>>, <<11559,11559,1>>, <<11565,11565,1>>,
      <<42560,42605,1>>, <<42624,42653,1>>, <<42786,42887,1>>,
      <<42891,42894,1>>, <<42896,42954,1>>, <<42960,42961,1>>,
      <<42963,42963,1>>, <<42965,42969,1>>, <<42997,42998,1>>,
      <<43000,43002,1>>, <<43824,43866,1>>, <<43868,43880,1>>,
      <<43888,43967,1>>, <<64256,64262,1>>, <<64275,64279,1>>,
      <<65313,65338,1>>, <<65345,65370,1>>, <<66560,66639,1>>,
      <<66736,66771,1>>, <<66776,66811,1>>, <<66928,66938,1>>,
      <<66940,66954,1>>, <<66956,66962,1>>, <<66964,66965,1>>,
      <<66967,66977,1>>, <<66979,66993,1>>, <<66995,67001,1>>,
      <<67003,67004,1>>, <<67456,67456,1>>, <<67459,67461,1>>,
      <<67463,67504,1>>, <<67506,67514,1>>, <<68736,68786,1>>,
      <<68800,68850,1>>, <<71840,71903,1>>, <<93760,93823,1>>,
      <<119808,119892,1>>, <<119894,119964,1>>, <<119966,119967,1>>,
      <<119970,119970,1>>, <<119973,119974,1>>, <<119977,119980,1>>,
      <<119982,119993,1>>, <<119995,119995,1>>, <<119997,120003,1>>,
      <<120005,120069,1>>, <<120071,120074,1>>, <<120077,120084,1>>,
      <<120086,120092,1>>, <<120094,120121,1>>, <<120123,120126,1>>,
      <<120128,120132,1>>, <<120134,120134,1>>, <<120138,120144,1>>,
      <<120146,120485,1>>, <<120488,120512,1>>, <<120514,120538,1>>,
      <<120540,120570,1>>, <<120572,120596,1>>, <<120598,120628,1>>,
      <<120630,120654,1>>, <<120656,120686,1>>, <<120688,120712,1>>,
      <<120714,120744,1>>, <<120746,120770,1>>, <<120772,120779,1>>,
      <<122624,122633,1>>, <<122635,122654,1>>, <<125184,125251,1>>,
      <<127280,127305,1>>, <<127312,127337,1>>, <<127344,127369,1>> } } }

\* The case-ignorable characters, which the final-sigma rule skips.
CaseIgnorableChars ==
    { Chr(n) : n \in UNION { Points(r) : r \in {
      <<39,39,1>>, <<46,46,1>>, <<58,58,1>>, <<94,94,1>>, <<96,96,1>>,
      <<168,168,1>>, <<173,173,1>>, <<175,175,1>>, <<180,180,1>>,
      <<183,184,1>>, <<688,879,1>>, <<884,885,1>>, <<890,890,1>>,
      <<900,901,1>>, <<903,903,1>>, <<1155,1161,1>>, <<1369,1369,1>>,
      <<1375,1375,1>>, <<1425,1469,1>>, <<1471,1471,1>>, <<1473,1474,1>>,
      <<1476,1477,1>>, <<1479,1479,1>>, <<1524,1524,1>>, <<1536,1541,1>>,
      <<1552,1562,1>>, <<1564,1564,1>>, <<1600,1600,1>>, <<1611,1631,1>>,
      <<1648,1648,1>>, <<1750,1757,1>>, <<1759,1768,1>>, <<1770,1773,1>>,
      <<1807,1807,1>>, <<1809,1809,1>>, <<1840,1866,1>>, <<1958,1968,1>>,
      <<2027,2037,1>>, <<2042,2042,1>>, <<2045,2045,1>>, <<2070,2093,1>>,
      <<2137,2139,1>>, <<2184,2184,1>>, <<2192,2193,1>>, <<2200,2207,1>>,
      <<2249,2306,1>>, <<2362,2362,1>>, <<2364,2364,1>>, <<2369,2376,1>>,
      <<2381,2381,1>>, <<2385,2391,1>>, <<2402,2403,1>>, <<2417,2417,1>>,
      <<2433,2433,1>>, <<2492,2492,1>>, <<2497,2500,1>>, <<2509,2509,1>>,
      <<2530,2531,1>>, <<2558,2558,1>>, <<2561,2562,1>>, <<2620,2620,1>>,
      <<2625,2626,1>>, <<2631,2632,1>>, <<2635,2637,1>>, <<2641,2641,1>>,
      <<2672,2673,1>>, <<2677,2677,1>>, <<2689,2690,1>>, <<2748,2748,1>>,
      <<2753,2757,1>>, <<2759,2760,1>>, <<2765,2765,1>>, <<2786,2787,1>>,
      <<2810,2815,1>>, <<2817,2817,1>>, <<2876,2876,1>>, <<2879,2879,1>>,
      <<2881,2884,1>>, <<2893,2893,1>>, <<2901,2902,1>>, <<2914,2915,1>>,
      <<2946,2946,1>>, <<3008,3008,1>>, <<3021,3021,1>>, <<3072,3072,1>>,
      <<3076,3076,1>>, <<3132,3132,1>>, <<3134,3136,1>>, <<3142,3144,1>>,
      <<3146,3149,1>>, <<3157,3158,1>>, <<3170,3171,1>>, <<3201,3201,1>>,
      <<3260,3260,1>>, <<3263,3263,1>>, <<3270,3270,1>>, <<3276,3277,1>>,
      <<3298,3299,1>>, <<3328,3329,1>>, <<3387,3388,1>>, <<3393,3396,1>>,
      <<3405,3405,1>>, <<3426,3427,1>>, <<3457,3457,1>>, <<3530,3530,1>>,
      <<3538,3540,1>>, <<3542,3542,1>>, <<3633,3633,1>>, <<3636,3642,1>>,
      <<3654,3662,1>>, <<3761,3761,1>>, <<3764,3772,1>>, <<3782,3782,1>>,
      <<3784,3789,1>>, <<3864,3865,1>>, <<3893,3897,2>>, <<3953,3966,1>>,
      <<3968,3972,1>>, <<3974,3975,1>>, <<3981,3991,1>>, <<3993,4028,1>>,
      <<4038,4038,1>>, <<4141,4144,1>>, <<4146,4151,1>>, <<4153,4154,1>>,
      <<4157,4158,1>>, <<4184,4185,1>>, <<4190,4192,1>>, <<4209,4212,1>>,
      <<4226,4226,1>>, <<4229,4230,1>>, <<4237,4237,1>>, <<4253,4253,1>>,
      <<4348,4348,1>>, <<4957,4959,1>>, <<5906,5908,1>>, <<5938,5939,1>>,
      <<5970,5971,1>>, <<6002,6003,1>>, <<6068,6069,1>>, <<6071,6077,1>>,
      <<6086,6086,1>>, <<6089,6099,1>>, <<6103,6103,1>>, <<6109,6109,1>>,
      <<6155,6159,1>>, <<6211,6211,1>>, <<6277,6278,1>>, <<6313,6313,1>>,
      <<6432,6434,1>>, <<6439,6440,1>>, <<6450,6450,1>>, <<6457,6459,1>>,
      <<6679,6680,1>>, <<6683,6683,1>>, <<6742,6742,1>>, <<6744,6750,1>>,
      <<6752,6752,1>>, <<6754,6754,1>>, <<6757,6764,1>>, <<6771,6780,1>>,
      <<6783,6783,1>>, <<6823,6823,1>>, <<6832,6862,1>>, <<6912,6915,1>>,
      <<6964,6964,1>>, <<6966,6970,1>>, <<6972,6972,1>>, <<6978,6978,1>>,
      <<7019,7027,1>>, <<7040,7041,1>>, <<7074,7077,1>>, <<7080,7081,1>>,
      <<7083,7085,1>>, <<7142,7142,1>>, <<7144,7145,1>>, <<7149,7149,1>>,
      <<7151,7153,1>>, <<7212,7219,1>>, <<7222,7223,1>>, <<7288,7293,1>>,
      <<7376,7378,1>>, <<7380,7392,1>>, <<7394,7400,1>>, <<7405,7405,1>>,
      <<7412,7412,1>>, <<7416,7417,1>>, <<7468,7530,1>>, <<7544,7544,1>>,
      <<7579,7679,1>>, <<8125,8125,1>>, <<8127,8129,1>>, <<8141,8143,1>>,
      <<8157,8159,1>>, <<8173,8175,1>>, <<8189,8190,1>>, <<8203,8207,1>>,
      <<8216,8217,1>>, <<8228,8228,1>>, <<8231,8231,1>>, <<8234,8238,1>>,
      <<8288,8292,1>>, <<8294,8303,1>>, <<8305,8305,1>>, <<8319,8319,1>>,
      <<8336,8348,1>>, <<8400,8432,1>>, <<11388,11389,1>>, <<11503,11505,1>>,
      <<11631,11631,1>>, <<11647,11647,1>>, <<11744,11775,1>>,
      <<11823,11823,1>>, <<12293,12293,1>>, <<12330,12333,1>>,
      <<12337,12341,1>>, <<12347,12347,1>>, <<12441,12446,1>>,
      <<12540,12542,1>>, <<40981,40981,1>>, <<42232,42237,1>>,
      <<42508,42508,1>>, <<42607,42610,1>>, <<42612,42621,1>>,
      <<42623,42623,1>>, <<42652,42655,1>>, <<42736,42737,1>>,
      <<42752,42785,1>>, <<42864,42864,1>>, <<42888,42890,1>>,
      <<42994,42996,1>>, <<43000,43001,1>>, <<43010,43010,1>>,
      <<43014,43014,1>>, <<43019,43019,1>>, <<43045,43046,1>>,
      <<43052,43052,1>>, <<43204,43205,1>>, <<43232,43249,1>>,
      <<43263,43263,1>>, <<43302,43309,1>>, <<43335,43345,1>>,
      <<43392,43394,1>>, <<43443,43443,1>>, <<43446,43449,1>>,
      <<43452,43453,1>>, <<43471,43471,1>>, <<43493,43494,1>>,
      <<43561,43566,1>>, <<43569,43570,1>>, <<43573,43574,1>>,
      <<43587,43587,1>>, <<43596,43596,1>>, <<43632,43632,1>>,
      <<43644,43644,1>>, <<43696,43696,1>>, <<43698,43700,1>>,
      <<43703,43704,1>>, <<43710,43711,1>>, <<43713,43713,1>>,
      <<43741,43741,1>>, <<43756,43757,1>>, <<43763,43764,1>>,
      <<43766,43766,1>>, <<43867,43871,1>>, <<43881,43883,1>>,
      <<44005,44005,1>>, <<44008,44008,1>>, <<44013,44013,1>>,
      <<64286,64286,1>>, <<64434,64450,1>>, <<65024,65039,1>>,
      <<65043,65043,1>>, <<65056,65071,1>>, <<65106,65106,1>>,
      <<65109,65109,1>>, <<65279,65279,1>>, <<65287,65287,1>>,
      <<65294,65294,1>>, <<65306,65306,1>>, <<65342,65342,1>>,
      <<65344,65344,1>>, <<65392,65392,1>>, <<65438,65439,1>>,
      <<65507,65507,1>>, <<65529,65531,1>>, <<66045,66045,1>>,
      <<66272,66272,1>>, <<66422,66426,1>>, <<67456,67461,1>>,
      <<67463,67504,1>>, <<67506,67514,1>>, <<68097,68099,1>>,
      <<68101,68102,1>>, <<68108,68111,1>>, <<68152,68154,1>>,
      <<68159,68159,1>>, <<68325,68326,1>>, <<68900,68903,1>>,
      <<69291,69292,1>>, <<69446,69456,1>>, <<69506,69509,1>>,
      <<69633,69633,1>>, <<69688,69702,1>>, <<69744,69744,1>>,
      <<69747,69748,1>>, <<69759,69761,1>>, <<69811,69814,1>>,
      <<69817,69818,1>>, <<69821,69821,1>>, <<69826,69826,1>>,
      <<69837,69837,1>>, <<69888,69890,1>>, <<69927,69931,1>>,
      <<69933,69940,1>>, <<70003,70003,1>>, <<70016,70017,1>>,
      <<70070,70078,1>>, <<70089,70092,1>>, <<70095,70095,1>>,
      <<70191,70193,1>>, <<70196,70196,1>>, <<70198,70199,1>>,
      <<70206,70206,1>>, <<70367,70367,1>>, <<70371,70378,1>>,
      <<70400,70401,1>>, <<70459,70460,1>>, <<70464,70464,1>>,
      <<70502,70508,1>>, <<70512,70516,1>>, <<70712,70719,1>>,
      <<70722,70724,1>>, <<70726,70726,1>>, <<70750,70750,1>>,
      <<70835,70840,1>>, <<70842,70842,1>>, <<70847,70848,1>>,
      <<70850,70851,1>>, <<71090,71093,1>>, <<71100,71101,1>>,
      <<71103,71104,1>>, <<71132,71133,1>>, <<71219,71226,1>>,
      <<71229,71229,1>>, <<71231,71232,1>>, <<71339,71339,1>>,
      <<71341,71341,1>>, <<71344,71349,1>>, <<71351,71351,1>>,
      <<71453,71455,1>>, <<71458,71461,1>>, <<71463,71467,1>>,
      <<71727,71735,1>>, <<71737,71738,1>>, <<71995,71996,1>>,
      <<71998,71998,1>>, <<72003,72003,1>>, <<72148,72151,1>>,
      <<72154,72155,1>>, <<72160,72160,1>>, <<72193,72202,1>>,
      <<72243,72248,1>>, <<72251,72254,1>>, <<72263,72263,1>>,
      <<72273,72278,1>>, <<72281,72283,1>>, <<72330,72342,1>>,
      <<72344,72345,1>>, <<72752,72758,1>>, <<72760,72765,1>>,
      <<72767,72767,1>>, <<72850,72871,1>>, <<72874,72880,1>>,
      <<72882,72883,1>>, <<72885,72886,1>>, <<73009,73014,1>>,
      <<73018,73018,1>>, <<73020,73021,1>>, <<73023,73029,1>>,
      <<73031,73031,1>>, <<73104,73105,1>>, <<73109,73109,1>>,
      <<73111,73111,1>>, <<73459,73460,1>>, <<78896,78904,1>>,
      <<92912,92916,1>>, <<92976,92982,1>>, <<92992,92995,1>>,
      <<94031,94031,1>>, <<94095,94111,1>>, <<94176,94177,1>>,
      <<94179,94180,1>>, <<110576,110579,1>>, <<110581,110587,1>>,
      <<110589,110590,1>>, <<113821,113822,1>>, <<113824,113827,1>>,
      <<118528,118573,1>>, <<118576,118598,1>>, <<119143,119145,1>>,
      <<119155,119170,1>>, <<119173,119179,1>>, <<119210,119213,1>>,
      <<119362,119364,1>>, <<121344,121398,1>>, <<121403,121452,1>>,
      <<121461,121461,1>>, <<121476,121476,1>>, <<121499,121503,1>>,
      <<121505,121519,1>>, <<122880,122886,1>>, <<122888,122904,1>>,
      <<122907,122913,1>>, <<122915,122916,1>>, <<122918,122922,1>>,
      <<123184,123197,1>>, <<123566,123566,1>>, <<123628,123631,1>>,
      <<125136,125142,1>>, <<125252,125259,1>>, <<127995,127999,1>>,
      <<917505,917505,1>>, <<917536,917631,1>>, <<917760,917999,1>> } } }

\* The lower case of the character at position i of s.  A capital sigma
\* becomes the final sigma when a cased character precedes it and none
\* follows it, case-ignorable characters in between not counting.
LowerChar(s, i) ==
    LET before == { j \in 1..(i - 1) : s[j] \notin CaseIgnorableChars }
        after  == { j \in (i + 1)..Len(s) : s[j] \notin CaseIgnorableChars }
        last   == CHOOSE j \in before : \A k \in before : k <= j
        first  == CHOOSE j \in after : \A k \in after : j <= k
        final  == /\ before /= {} /\ s[last] \in CasedChars
                  /\ after = {} \/ s[first] \notin CasedChars
    IN  IF s[i] = Chr(931) THEN << IF final THEN Chr(962) ELSE Chr(963) >>
        ELSE IF s[i] \in DOMAIN LowerMap THEN LowerMap[s[i]]
        ELSE << s[i] >>

\* str.lower().
Lower(s) ==
    LET RECURSIVE From(_)
        From(i) == IF i > Len(s) THEN <<>> ELSE LowerChar(s, i) \o From(i + 1)
    IN  From(1)

\* str.islower() on one character.
IsLowerChar(c) == c \in LowercaseChars

\* str.split(sep) for a one-character separator: always at least one piece.
Split(s, sep) ==
    LET RECURSIVE SplitFrom(_, _)
        SplitFrom(i, cur) ==
            IF i > Len(s) THEN <<cur>>
            ELSE IF s[i] = sep THEN <<cur>> \o SplitFrom(i + 1, <<>>)
            ELSE SplitFrom(i + 1, Append(cur, s[i]))
    IN  SplitFrom(1, <<>>)

\* str.replace(old, new) for one-character old and new.
Replace(s, old, new) == [i \in 1..Len(s) |-> IF s[i] = old THEN new ELSE s[i]]

\* "x in s" for a character x and a text or list s.
Contains(s, x) == \E i \in 1..Len(s) : s[i] = x

\* ------------------------------------------------------------------ base64
\* The base64 alphabet; a character's value is its index minus one.
B64Alphabet ==
    SubSeq(Ascii, 34, 59) \o SubSeq(Ascii, 66, 91) \o DigitChars \o <<"+","/">>

\* binascii.a2b_base64 in its default, non-strict mode, as base64.b64decode
\* calls it: characters outside the alphabet are skipped, a pad sequence that
\* completes a quad ends the input, and a quad left open at the end of the
\* input is binascii.Error (ok = FALSE).
RECURSIVE A2B(_, _, _, _, _, _)
A2B(s, i, quad_pos, leftchar, pads, out) ==
    IF i > Len(s) THEN [ok |-> quad_pos = 0, bytes |-> out]
    ELSE IF s[i] = "=" THEN
        IF quad_pos >= 2 /\ quad_pos + pads + 1 >= 4
        THEN [ok |-> TRUE, bytes |-> out]
        ELSE A2B(s, i + 1, quad_pos, leftchar,
                 IF quad_pos >= 2 THEN pads + 1 ELSE pads, out)
    ELSE IF IndexOf(s[i], B64Alphabet) = 0
    THEN A2B(s, i + 1, quad_pos, leftchar, pads, out)
    ELSE LET v == IndexOf(s[i], B64Alphabet) - 1 IN
         CASE quad_pos = 0 -> A2B(s, i + 1, 1, v, 0, out)
           [] quad_pos = 1 ->
                A2B(s, i + 1, 2, v % 16, 0, Append(out, leftchar * 4 + v \div 16))
           [] quad_pos = 2 ->
                A2B(s, i + 1, 3, v % 4, 0, Append(out, leftchar * 16 + v \div 4))
           [] OTHER ->
                A2B(s, i + 1, 0, 0, 0, Append(out, leftchar * 64 + v))
\* base64.b64decode on a text: the text is first encoded as ASCII, and a
\* character of code 128 or more makes that a ValueError; the bytes then go
\* to a2b_base64.  error is "None", "ValueError" or "binascii.Error".
b64decode(s) ==
    IF \E i \in 1..Len(s) : s[i] \notin { Chr(n) : n \in 0..127 }
    THEN [ok |-> FALSE, error |-> "ValueError", bytes |-> <<>>]
    ELSE LET r == A2B(s, 1, 0, 0, 0, <<>>)
         IN  [ok |-> r.ok, bytes |-> r.bytes,
              error |-> IF r.ok THEN "None" ELSE "binascii.Error"]

\* frappe.safe_decode on bytes: UTF-8 decoding.  A byte below 128 is the
\* character of that code; a lead byte with its continuation bytes is one
\* character; an overlong form, a surrogate, a code above 1114111 or a
\* stray byte is a UnicodeDecodeError (a ValueError), ok = FALSE.
safe_decode(bytes) ==
    LET Cont(i) == i <= Len(bytes) /\ bytes[i] \in 128..191
        Width(i) ==
            IF bytes[i] < 128 THEN 1
            ELSE IF bytes[i] \in 194..223 /\ Cont(i + 1) THEN 2
            ELSE IF /\ bytes[i] \in 224..239 /\ Cont(i + 1) /\ Cont(i + 2)
                    /\ bytes[i] = 224 => bytes[i + 1] >= 160
                    /\ bytes[i] = 237 => bytes[i + 1] <= 159
                 THEN 3
            ELSE IF /\ bytes[i] \in 240..244
                    /\ Cont(i + 1) /\ Cont(i + 2) /\ Cont(i + 3)
                    /\ bytes[i] = 240 => bytes[i + 1] >= 144
                    /\ bytes[i] = 244 => bytes[i + 1] <= 143
                 THEN 4
            ELSE 0
        Code(i, w) ==
            CASE w = 1 -> bytes[i]
              [] w = 2 -> (bytes[i] - 192) * 64 + (bytes[i + 1] - 128)
              [] w = 3 -> (bytes[i] - 224) * 4096 + (bytes[i + 1] - 128) * 64
                              + (bytes[i + 2] - 128)
              [] OTHER -> (bytes[i] - 240) * 262144 + (bytes[i + 1] - 128) * 4096
                              + (bytes[i + 2] - 128) * 64 + (bytes[i + 3] - 128)
        RECURSIVE From(_)
        From(i) ==
            IF i > Len(bytes) THEN [ok |-> TRUE, text |-> <<>>]
            ELSE IF Width(i) = 0 THEN [ok |-> FALSE, text |-> <<>>]
            ELSE LET r == From(i + Width(i))
                 IN  [ok   |-> r.ok,
                      text |-> IF r.ok THEN <<Chr(Code(i, Width(i)))>> \o r.text
                               ELSE <<>>]
    IN  From(1)

\* ------------------------------------------------- the authentication data
\* Python's None where a name (a user, a record name, a header value) is
\* expected.
NoName == "None"

\* The records that carry an API key: the doctype, the record's name, its
\* api_key, its decrypted api_secret and, for a doctype other than User, the
\* user the record maps to.
ApiRecords ==
    { [doctype |-> "User",    name |-> "u1", api_key |-> <<"a">>,
       api_secret |-> <<"b">>, user |-> "u1"],
      [doctype |-> "Partner", name |-> "p1", api_key |-> <<"k">>,
       api_secret |-> <<"s">>, user |-> "u2"] }

\* The "OAuth Bearer Token" records: token, scopes and user.
OAuthTokens ==
    { [token |-> <<"t","k">>,     scopes |-> <<"a","l","l">>, user |-> "o1"],
      [token |-> <<"a",":","b">>, scopes |-> <<"a","l","l">>, user |-> "o1"],
      [token |-> <<"Y","T","p">>, scopes |-> <<"a","l","l">>, user |-> "o1"] }

\* The Authorization headers of the requests; the absent header is "", the
\* default of get_request_header.
AuthHeaders ==
    { <<>>,                                                   \* absent
      <<"t","k">>,                                            \* one token
      <<"B","a","s","i","c"," "," ","Y","T","p","i">>,        \* three tokens
      <<"B","e","a","r","e","r"," ","t","k">>,                \* known bearer
      <<"B","e","a","r","e","r"," ","z","z">>,                \* unknown bearer
      <<"B","a","s","i","c"," ","Y","T","p","i">>,            \* a:b
      <<"b","a","s","i","c"," ","Y","T","p","j">>,            \* a:c
      <<"B","A","S","I","C"," ","Y","T","p">>,                \* bad padding
      <<"B","a","s","i","c"," ","Y","T","p","i","O","m","M","=">>, \* a:b:c
      <<"t","o","k","e","n"," ","a",":","b">>,                \* a:b
      <<"T","o","k","e","n"," ","k",":","s">>,                \* k:s
      <<"T","o","k","e","n"," ","a">>,                        \* no colon
      <<"T","o","k","e","n"," ","a",":","b",":","c">>,    \* two colons
      <<"B","a","s","i","c"," ","Y","Q","=","=">>,           \* a, no colon
      <<"B","a","s","i","c"," ","Y","T","p","i","\\x233">>,   \* a:b, e acute
      <<"t","o","\\x8490","e","n"," ","a",":","b">>,          \* Kelvin sign
      <<"B","a","s","i","c"," ","w","6","k","6","Y","g","=","=">>, \* e acute:b
      <<"B","a","s","i","c"," ","/","z","p","i">> }           \* byte 255, :b

\* The Frappe-Authorization-Source headers of the requests (None: absent).
AuthSources == { NoName, "Partner" }

\* The registered auth hooks (frappe.get_hooks("auth_hooks", [])).
HookLists == { <<"h1","h2">>, <<"h2","h1">> }
\* The user a hook sets when it authenticates the request itself, and the
\* exception a hook raises when it refuses the request.
HookUser == "hu"
HookError == "HookError"

\* A dict is a function from its keys, which are texts; form_dict maps
\* parameter names to their values.
EmptyDict == [k \in {} |-> None]
kv(k, v) == [x \in {k} |-> v]
\* dict.get(k): None for a missing key.
Get(d, k) == IF k \in DOMAIN d THEN d[k] ELSE None
\* d.update(e), and d[k] = v.
Update(d, e) == [k \in DOMAIN d \cup DOMAIN e |-> IF k \in DOMAIN e THEN e[k] ELSE d[k]]
\* del d[k] / d.pop(k).
Without(d, k) == [x \in DOMAIN d \ {k} |-> d[x]]

AuthForms == { EmptyDict, kv(<<"c","m","d">>, <<"p","i","n","g">>) }

VARIABLES
    nreq,        \* requests received so far
    pc,          \* where the current request is
    header,      \* its Authorization header
    source,      \* its Frappe-Authorization-Source header
    user,        \* the session identity
    api_user,    \* frappe.local.api_user
    form_dict,   \* frappe.local.form_dict
    error,       \* the exception raised to the caller, or "None"
    trace,       \* the stages and hooks run for the request, in order
    auth_hooks,  \* the registered hooks
    cache,       \* the "api_key" hash of frappe.cache: api key -> entry
    keylog,      \* per api key, the validations since the key was last
                 \* absent from the cache
    login_manager,  \* frappe.local.login_manager: its user, and whether
                 \* frappe.set_user writes that user
    path,        \* frappe.request.path
    method,      \* frappe.local.request.method
    body,        \* the request body, as frappe.parse_json reads it
    response,    \* frappe.local.response
    docs,        \* the document store: <<doctype, name>> -> fields
    ops,         \* the collaborator calls made for the request, in order
    listed,      \* what frappe.client.get_list returned for the request
    req_form,    \* the form parameters as the request carried them
    workers      \* the requests that validate one api key at the same time,
                 \* each with its own frappe.local

authvars   == <<header, source, api_user, trace, auth_hooks, cache, keylog,
               login_manager>>
routervars == <<path, method, body, response, docs, ops, listed, req_form>>
vars == <<nreq, pc, user, form_dict, error, authvars, routervars, workers>>

\* ------------------------------------------------------------ collaborators
\* frappe.db.get_value("OAuth Bearer Token", token, field): None when there
\* is no such token.
OAuthKnown(token) == \E t \in OAuthTokens : t.token = token
OAuthUser(token)  == (CHOOSE t \in OAuthTokens : t.token = token).user

\* frappe.db.get_value(doctype=doctype, filters={"api_key": api_key},
\* fieldname=["name"]).
RecordByKey(doctype, api_key) ==
    IF \E r \in ApiRecords : r.doctype = doctype /\ r.api_key = api_key
    THEN (CHOOSE r \in ApiRecords : r.doctype = doctype /\ r.api_key = api_key).name
    ELSE NoName

\* frappe.utils.password.get_decrypted_password(doctype, doc, "api_secret").
get_decrypted_password(doctype, doc) ==
    IF \E r \in ApiRecords : r.doctype = doctype /\ r.name = doc
    THEN (CHOOSE r \in ApiRecords : r.doctype = doctype /\ r.name = doc).api_secret
    ELSE None

\* frappe.db.get_value(doctype, doc, "user").
UserOfRecord(doctype, doc) ==
    IF \E r \in ApiRecords : r.doctype = doctype /\ r.name = doc
    THEN (CHOOSE r \in ApiRecords : r.doctype = doctype /\ r.name = doc).user
    ELSE NoName

\* What frappe.set_user does to frappe.local.login_manager.user is not
\* decided by the code at hand: either it writes the user there too, or it
\* leaves the login manager as the start of the request made it.
LoginManagers == [user : {"Guest"}, set_by_set_user : BOOLEAN]

\* frappe.set_user(username): the session identity becomes username and the
\* form parameters are reset.
set_user(st, username) ==
    [st EXCEPT !.user = username, !.form_dict = EmptyDict,
               !.login_manager.user =
                   IF st.login_manager.set_by_set_user THEN username ELSE @]

\* frappe.cache.hget("api_key", key) is falsy when the key is absent.
hget(c, key) == key \in DOMAIN c
hset(c, key, val) == [k \in DOMAIN c \cup {key} |-> IF k = key THEN val ELSE c[k]]

\* The scheme names the API-key stage compares against.
basic == <<"b","a","s","i","c">>
token == <<"t","o","k","e","n">>


\* ------------------------------------------------------- router: the texts
\* str.strip(): leading and trailing white space removed.  White space is
\* what str.isspace() accepts: the code points below.
IsSpace(c) ==
    c \in { Chr(n) : n \in (9..13) \cup (28..32) \cup {133, 160, 5760}
                              \cup (8192..8202)
                              \cup {8232, 8233, 8239, 8287, 12288} }
Strip(s) ==
    LET RECURSIVE LStrip(_)
        LStrip(t) == IF t /= <<>> /\ IsSpace(Head(t)) THEN LStrip(Tail(t)) ELSE t
        RECURSIVE RStrip(_)
        RStrip(t) == IF t /= <<>> /\ IsSpace(t[Len(t)])
                     THEN RStrip(SubSeq(t, 1, Len(t) - 1)) ELSE t
    IN  RStrip(LStrip(s))

\* str.title(): a character that follows a cased character is lower-cased,
\* every other character is title-cased.
Title(s) ==
    LET At(i) == IF i > 1 /\ s[i - 1] \in CasedChars THEN LowerChar(s, i)
                 ELSE IF s[i] \in DOMAIN TitleMap THEN TitleMap[s[i]]
                 ELSE << s[i] >>
        RECURSIVE From(_)
        From(i) == IF i > Len(s) THEN <<>> ELSE At(i) \o From(i + 1)
    IN  From(1)
\* frappe.unscrub: txt.replace("_", " ").replace("-", " ").title().
unscrub(txt) == Title(Replace(Replace(txt, "_", " "), "-", " "))

\* json.loads.  A JSON value is a text (string), None (null), <<"True">>
\* or <<"False">>, <<"int", n>>, <<"float", m, e>> for the decimal m * 10^e
\* with m no multiple of 10 (<<"float", "nan">>, <<"float", "inf">> and
\* <<"float", "-inf">> for the three constants json accepts), <<"list">>
\* followed by the items, or <<"dict", d>> with d the mapping of the keys.
\* No text starts with one of these tags, since every element of a text is
\* one character.  A float keeps the decimal the text wrote, which is the
\* double Python makes of it for the mantissas TLC's integers hold, but
\* below 1e-307 where doubles lose digits; an integer is bounded by TLC's
\* integers.  A scan answers ok, the value and the position behind it.
JsonSpace(c) == c \in {" ", "\t", "\n", "\r"}
RECURSIVE SkipSpace(_, _)
SkipSpace(s, i) ==
    IF i <= Len(s) /\ JsonSpace(s[i]) THEN SkipSpace(s, i + 1) ELSE i
Fail == [ok |-> FALSE, val |-> None, pos |-> 0]
Got(v, p) == [ok |-> TRUE, val |-> v, pos |-> p]
HasAt(s, i, word) ==
    i + Len(word) - 1 <= Len(s) /\ SubSeq(s, i, i + Len(word) - 1) = word

\* Inside a string: a raw character below code 32 is an error.
IsControl(c) == c \in { Chr(n) : n \in 0..31 }
\* The characters after a backslash, but for u.
Escapes ==
    [c \in {"\"", "\\", "/", "b", "f", "n", "r", "t"} |->
        CASE c = "b" -> Chr(8)
          [] c = "f" -> "\f"
          [] c = "n" -> "\n"
          [] c = "r" -> "\r"
          [] c = "t" -> "\t"
          [] OTHER   -> c]
\* \uXXXX: four hexadecimal digits, of either case.
HexValue(c) ==
    (IndexOf(c, <<"0","1","2","3","4","5","6","7","8","9",
                  "a","b","c","d","e","f","A","B","C","D","E","F">>) - 1)
        - (IF c \in {"A","B","C","D","E","F"} THEN 6 ELSE 0)
IsHex4(s, i) ==
    i + 3 <= Len(s) /\ \A k \in i..(i + 3) : HexValue(s[k]) >= 0
Hex4(s, i) ==
    4096 * HexValue(s[i]) + 256 * HexValue(s[i + 1])
        + 16 * HexValue(s[i + 2]) + HexValue(s[i + 3])
\* An escaped high surrogate directly followed by an escaped low surrogate
\* is the one character of the pair.
IsSurrogatePair(s, i) ==
    /\ IsHex4(s, i + 2)
    /\ Hex4(s, i + 2) \in 55296..56319
    /\ HasAt(s, i + 6, <<"\\", "u">>)
    /\ IsHex4(s, i + 8)
    /\ Hex4(s, i + 8) \in 56320..57343
\* scanstring, from behind the opening quote.
RECURSIVE ScanString(_, _, _)
ScanString(s, i, cur) ==
    IF i > Len(s) THEN Fail
    ELSE IF s[i] = "\"" THEN Got(cur, i + 1)
    ELSE IF s[i] = "\\" THEN
        IF i + 1 > Len(s) THEN Fail
        ELSE IF s[i + 1] = "u" THEN
            IF ~IsHex4(s, i + 2) THEN Fail
            ELSE IF IsSurrogatePair(s, i)
                 THEN ScanString(s, i + 12,
                          Append(cur, Chr(65536 + 1024 * (Hex4(s, i + 2) - 55296)
                                              + (Hex4(s, i + 8) - 56320))))
                 ELSE ScanString(s, i + 6, Append(cur, Chr(Hex4(s, i + 2))))
        ELSE IF s[i + 1] \in DOMAIN Escapes
             THEN ScanString(s, i + 2, Append(cur, Escapes[s[i + 1]]))
             ELSE Fail
    ELSE IF IsControl(s[i]) THEN Fail
    ELSE ScanString(s, i + 1, Append(cur, s[i]))

\* A number: -?(0|[1-9][0-9]*), then a fraction when "." and a digit
\* follow, then an exponent when e or E and (behind an optional sign) a
\* digit follow.  a is where the integer part starts, b where it ends, c
\* where the fraction ends, d where the exponent's digits start and e where
\* they end (d = e = c without exponent).
IsDigit(c) == IndexOf(c, DigitChars) > 0
RECURSIVE DigitsEnd(_, _)
DigitsEnd(s, i) ==
    IF i <= Len(s) /\ IsDigit(s[i]) THEN DigitsEnd(s, i + 1) ELSE i
RECURSIVE Number(_, _)
Number(digits, acc) ==
    IF digits = <<>> THEN acc
    ELSE Number(Tail(digits), 10 * acc + IndexOf(Head(digits), DigitChars) - 1)
RECURSIVE Pow10(_)
Pow10(e) == IF e = 0 THEN 1 ELSE 10 * Pow10(e - 1)
RECURSIVE NumDigits(_)
NumDigits(n) == IF n < 10 THEN 1 ELSE 1 + NumDigits(n \div 10)
Abs(n) == IF n < 0 THEN 0 - n ELSE n
\* float(): above the largest double (1.797693134862315...e308) the value
\* is an infinity, below half the smallest (2.470328229...e-324) it is
\* zero.  k is the number of digits of m, at most 10.
Overflows(m, k, e) ==
    \/ e + k - 1 > 308
    \/ e + k - 1 = 308 /\ m > 1797693134 \div Pow10(10 - k)
Underflows(m, k, e) ==
    \/ e + k - 1 < 0 - 324
    \/ e + k - 1 = 0 - 324 /\ (k = 10 \/ m * Pow10(9 - k) <= 247032822)
RECURSIVE Float(_, _)
Float(m, e) ==
    IF m = 0 THEN <<"float", 0, 0>>
    ELSE IF m % 10 = 0 THEN Float(m \div 10, e + 1)
    ELSE IF Overflows(Abs(m), NumDigits(Abs(m)), e)
         THEN <<"float", IF m < 0 THEN "-inf" ELSE "inf">>
    ELSE IF Underflows(Abs(m), NumDigits(Abs(m)), e) THEN <<"float", 0, 0>>
    ELSE <<"float", m, e>>
NumberValue(s, i, a, b, c, d, e) ==
    LET Signed(j, n) == IF s[j] = "-" THEN 0 - n ELSE n
    IN  IF c = b /\ e = c
        THEN Got(<<"int", Signed(i, Number(SubSeq(s, a, b - 1), 0))>>, e)
        ELSE Got(Float(Signed(i, Number(SubSeq(s, a, b - 1)
                                           \o SubSeq(s, b + 1, c - 1), 0)),
                       (IF e > d THEN Signed(c + 1, Number(SubSeq(s, d, e - 1), 0))
                        ELSE 0)
                           - (IF c > b THEN c - b - 1 ELSE 0)),
                 e)
ExpPart(s, i, a, b, c) ==
    LET ExpDigits(d) ==
            NumberValue(s, i, a, b, c,
                IF c < Len(s) /\ s[c] \in {"e", "E"} /\ DigitsEnd(s, d) > d
                THEN d ELSE c,
                IF c < Len(s) /\ s[c] \in {"e", "E"} /\ DigitsEnd(s, d) > d
                THEN DigitsEnd(s, d) ELSE c)
    IN  ExpDigits(IF c + 1 < Len(s) /\ s[c + 1] \in {"+", "-"}
                  THEN c + 2 ELSE c + 1)
FracPart(s, i, a, b) ==
    ExpPart(s, i, a, b,
            IF b < Len(s) /\ s[b] = "." /\ IsDigit(s[b + 1])
            THEN DigitsEnd(s, b + 2) ELSE b)
ScanNumber(s, i) ==
    LET IntPart(a) ==
            IF a > Len(s) THEN Fail
            ELSE IF ~IsDigit(s[a]) THEN Fail
            ELSE FracPart(s, i, a,
                          IF s[a] = "0" THEN a + 1 ELSE DigitsEnd(s, a + 1))
    IN  IntPart(IF s[i] = "-" THEN i + 1 ELSE i)

\* scan_once: the value that starts at position i.
RECURSIVE ScanValue(_, _)
RECURSIVE ScanArray(_, _, _)
RECURSIVE ScanObject(_, _, _)
\* Behind an item of an array: "]" ends it, "," asks for the next item.
ArrayNext(s, j, out) ==
    IF j > Len(s) THEN Fail
    ELSE IF s[j] = "]" THEN Got(out, j + 1)
    ELSE IF s[j] = "," THEN ScanArray(s, SkipSpace(s, j + 1), out)
    ELSE Fail
ScanArray(s, i, out) ==
    LET ArrayItem(v) ==
            IF ~v.ok THEN Fail
            ELSE ArrayNext(s, SkipSpace(s, v.pos), Append(out, v.val))
    IN  ArrayItem(ScanValue(s, i))
\* Behind a member of an object: "}" ends it, "," asks for the next member.
\* A key met again takes the later value.
ObjectNext(s, j, d) ==
    IF j > Len(s) THEN Fail
    ELSE IF s[j] = "}" THEN Got(<<"dict", d>>, j + 1)
    ELSE IF s[j] = "," THEN ScanObject(s, SkipSpace(s, j + 1), d)
    ELSE Fail
ScanObject(s, i, d) ==
    LET ObjectValue(key, v) ==
            IF ~v.ok THEN Fail
            ELSE ObjectNext(s, SkipSpace(s, v.pos), Update(d, kv(key, v.val)))
        ObjectColon(key, j) ==
            IF ~key.ok THEN Fail
            ELSE IF j > Len(s) THEN Fail
            ELSE IF s[j] /= ":" THEN Fail
            ELSE ObjectValue(key.val, ScanValue(s, SkipSpace(s, j + 1)))
        ObjectKey(key) ==
            ObjectColon(key, IF key.ok THEN SkipSpace(s, key.pos) ELSE 0)
    IN  IF i > Len(s) THEN Fail
        ELSE IF s[i] /= "\"" THEN Fail
        ELSE ObjectKey(ScanString(s, i + 1, <<>>))
ScanValue(s, i) ==
    LET j == SkipSpace(s, i + 1)
    IN  IF i > Len(s) THEN Fail
        ELSE IF s[i] = "\"" THEN ScanString(s, i + 1, <<>>)
        ELSE IF s[i] = "{" THEN
            IF j <= Len(s) /\ s[j] = "}" THEN Got(<<"dict", EmptyDict>>, j + 1)
            ELSE ScanObject(s, j, EmptyDict)
        ELSE IF s[i] = "[" THEN
            IF j <= Len(s) /\ s[j] = "]" THEN Got(<<"list">>, j + 1)
            ELSE ScanArray(s, j, <<"list">>)
        ELSE IF HasAt(s, i, <<"n","u","l","l">>) THEN Got(None, i + 4)
        ELSE IF HasAt(s, i, <<"t","r","u","e">>) THEN Got(<<"True">>, i + 4)
        ELSE IF HasAt(s, i, <<"f","a","l","s","e">>) THEN Got(<<"False">>, i + 5)
        ELSE IF HasAt(s, i, <<"N","a","N">>) THEN Got(<<"float", "nan">>, i + 3)
        ELSE IF HasAt(s, i, <<"I","n","f","i","n","i","t","y">>)
             THEN Got(<<"float", "inf">>, i + 8)
        ELSE IF HasAt(s, i, <<"-","I","n","f","i","n","i","t","y">>)
             THEN Got(<<"float", "-inf">>, i + 9)
        ELSE ScanNumber(s, i)
\* json.loads(s): one value between optional white space and nothing else;
\* a text that starts with a byte order mark is refused.  ok = FALSE is the
\* ValueError json raises.
json_loads(s) ==
    LET JsonEnd(v) ==
            [ok    |-> v.ok /\ SkipSpace(s, v.pos) > Len(s),
             value |-> v.val]
    IN  JsonEnd(IF s /= <<>> /\ s[1] = Chr(65279) THEN Fail
                ELSE ScanValue(s, SkipSpace(s, 1)))
\* The kinds of value.
IsList(v) == v /= <<>> /\ v[1] = "list"
IsDict(v) == v /= <<>> /\ v[1] = "dict"

\* list.remove(x): the first occurrence only.
RemoveFirst(l, x) ==
    IF ~Contains(l, x) THEN l
    ELSE LET i == CHOOSE j \in 1..Len(l) :
                     l[j] = x /\ \A m \in 1..(j - 1) : l[m] /= x
         IN  SubSeq(l, 1, i - 1) \o SubSeq(l, i + 1, Len(l))

\* The parameter and field names the code spells out.
K_fields     == <<"f","i","e","l","d","s">>
K_run_method == <<"r","u","n","_","m","e","t","h","o","d">>
K_name       == <<"n","a","m","e">>
K_id         == <<"i","d">>
K_cmd        == <<"c","m","d">>
K_data       == <<"d","a","t","a">>
K_flags      == <<"f","l","a","g","s">>
K_filters    == <<"f","i","l","t","e","r","s">>
K_limit      == <<"l","i","m","i","t">>
K_limit_page_length == <<"l","i","m","i","t","_","p","a","g","e","_","l","e","n","g","t","h">>
K_as_dict    == <<"a","s","_","d","i","c","t">>
K_debug      == <<"d","e","b","u","g">>
K_doctype    == <<"d","o","c","t","y","p","e">>
K_parenttype == <<"p","a","r","e","n","t","t","y","p","e">>
K_parent     == <<"p","a","r","e","n","t">>
K_http_status_code == <<"h","t","t","p","_","s","t","a","t","u","s","_","c","o","d","e">>
K_message    == <<"m","e","s","s","a","g","e">>
K_islocal    == <<"_","_","i","s","l","o","c","a","l">>

\* _RESTAPIHandler._fields: the fields parameter as a list, "id" removed
\* (once) and "name" appended.  error is the exception it ends with:
\* ValueError when json.loads raised, AttributeError when the JSON value is
\* no list (a text or a dict has neither remove nor append).  js is the
\* list the parameter stands for, written as json.loads writes a list.
SplitFields(pieces) ==
    <<"list">> \o [i \in 1..Len(pieces) |-> Strip(pieces[i])]
_fields(form) ==
    LET FieldsOf(js) ==
            [error |-> IF ~js.ok THEN "ValueError"
                       ELSE IF ~IsList(js.value) THEN "AttributeError"
                       ELSE "None",
             list  |-> Append(RemoveFirst(Tail(js.value), K_id), K_name)]
    IN  FieldsOf(IF K_fields \notin DOMAIN form
                    \/ form[K_fields] \in {<<>>, None}
                 THEN [ok |-> TRUE, value |-> <<"list">>]
                 ELSE IF Contains(form[K_fields], "[")
                      THEN json_loads(form[K_fields])
                 ELSE [ok    |-> TRUE,
                       value |-> SplitFields(Split(form[K_fields], ","))])

\* ------------------------------------------------------ router: the data
K_subject == <<"s","u","b","j","e","c","t">>
K_status  == <<"s","t","a","t","u","s">>
K_owner   == <<"o","w","n","e","r">>
Task      == <<"T","a","s","k">>
Row       == <<"R","o","w">>
Customer  == <<"C","u","s","t","o","m","e","r">>

\* The documents of the store when the first request arrives: a Task with a
\* null field and a system field, and a child-table row of that Task.
InitialDocs ==
    <<Task, <<"T","1">>>> :> ( kv(K_name, <<"T","1">>) @@ kv(K_doctype, Task)
                          @@ kv(K_owner, <<"a","d","m">>) @@ kv(K_subject, <<"f","i","x">>)
                          @@ kv(K_status, None) )
    @@
    <<Row, <<"R","1">>>>  :> ( kv(K_name, <<"R","1">>) @@ kv(K_doctype, Row)
                          @@ kv(K_parenttype, Task) @@ kv(K_parent, <<"T","1">>) )

\* The request paths.
Paths ==
    { <<"/","a","p","i">>,
      <<"/","a","p","i","/","f","o","o">>,
      <<"/","a","p","i","/","f","o","o","/">>,
      <<"/","a","p","i","/","f","o","o","/","T","a","s","k","/","T","1">>,
      <<"/","a","p","i","/","f","o","o","/","T","a","s","k","/","T","1","/","d","o","-","i","t">>,
      <<"/","a","p","i","/","m","e","t","h","o","d","/","p","i","n","g">>,
      <<"/","a","p","i","/","r","e","s","o","u","r","c","e">>,
      <<"/","a","p","i","/","r","e","s","o","u","r","c","e","/">>,
      <<"/","a","p","i","/","r","e","s","o","u","r","c","e","/","T","a","s","k">>,
      <<"/","a","p","i","/","r","e","s","o","u","r","c","e","/","C","u","s","t","o","m","e","r">>,
      <<"/","a","p","i","/","r","e","s","o","u","r","c","e","/","t","a","s","k","/","T","1">>,
      <<"/","a","p","i","/","r","e","s","o","u","r","c","e","/","\\x233","t","\\x233">>,
      <<"/","a","p","i","/","r","e","s","o","u","r","c","e","/","T","a","s","k","/","T","9">>,
      <<"/","a","p","i","/","r","e","s","o","u","r","c","e","/","R","o","w","/","R","1">>,
      <<"/","a","p","i","/","r","e","s","o","u","r","c","e","/","T","a","s","k","/","T","1","/","d","o","-","i","t">> }

Methods == { "GET", "POST", "PUT", "DELETE" }

\* The form parameters of the requests.
RouterForms ==
    { EmptyDict,
      kv(K_run_method, <<"s","u","b","m","i","t">>),
      kv(K_fields, <<"s","u","b","j","e","c","t",","," ","i","d">>),
      kv(K_fields, <<"[","\"","s","t","a","t","u","s","\"",",","\"","i","d","\"","]">>),
      kv(K_fields, <<"[","\"","s","t","a","t","u","s","\"">>),
      kv(K_fields, <<"i","d",",","s","u","b","j","e","c","t",",","i","d">>),
      kv(K_fields, <<"[","1",",","\"","s","u","b","j","e","c","t","\"","]">>),
      kv(K_fields, <<"[","[","]","]">>),
      kv(K_fields, <<"{","\"","a","\"",":","[","]","}">>),
      kv(K_filters, <<"[","[","\"","n","a","m","e","\"",",","\"","l","i","k","e","\"",",","\"","\\x201","%","\"","]","]">>),
      kv(K_filters, <<"list", <<"list", Customer, K_name, <<"l","i","k","e">>, <<"C","%">>>>>>),
      kv(K_limit, <<"5">>) @@ kv(K_as_dict, <<"T","r","u","e">>) @@ kv(K_debug, <<"n","o">>) }

\* The request bodies: a JSON object as frappe.parse_json returns it, or a
\* body that is not JSON (ok = FALSE, parse_json raises ValueError).
Bodies ==
    { [ok |-> FALSE, value |-> EmptyDict],
      [ok |-> TRUE,  value |-> kv(K_status, <<"C","l","o","s","e","d">>)],
      [ok |-> TRUE,  value |-> kv(K_status, <<"O","p","e","n">>) @@ kv(K_flags, <<"x">>)],
      [ok |-> TRUE,  value |-> kv(K_parenttype, Task) @@ kv(K_parent, <<"T","9">>)],
      [ok |-> TRUE,  value |-> kv(K_parenttype, <<>>)] }

\* The session users of the routed requests.
RouterUsers == { "Guest", "tsp1@example.com" }

\* What frappe.client.get_list may return.
Listings ==
    { <<>>,
      << kv(K_name, <<"T","1">>) @@ kv(K_subject, <<"f","i","x">>),
         kv(K_subject, <<"f","i","x">>) >>,
      << kv(K_name, <<"T","1">>) @@ kv(K_id, <<"o","l","d">>) >> }

\* The answers of the collaborators to one request: has_permission("read")
\* and ("write"), is_whitelisted, whether the store accepts the save, insert
\* or delete, and the list get_list returns.
\* The fields a field-level read restriction may withhold from the caller.
HiddenFieldSets == { {}, {K_subject} }
\* The default fields that as_dict leaves out under no_default_fields.
\* Whether the primary key name is one of them is the store's affair: both
\* kinds of store are drawn.
DefaultFieldSets == { { K_doctype, K_owner }, { K_doctype, K_owner, K_name } }
\* What the controller of a new document may leave in the response while
\* the document is saved: nothing, or a status of its own.
ControllerResponses ==
    { EmptyDict, kv(K_http_status_code, <<"int", 0>>),
      kv(K_http_status_code, <<"int", 409>>) }
AllEnvs ==
    [perm_read : BOOLEAN, perm_write : BOOLEAN, whitelisted : BOOLEAN,
     store_ok : BOOLEAN, listing : Listings, hidden_fields : HiddenFieldSets,
     default_fields : DefaultFieldSets, controller_response : ControllerResponses]
Refusals(e) ==
    Cardinality({ f \in {"perm_read", "perm_write", "whitelisted", "store_ok"} :
                    ~e[f] })
\* The answers the model draws: at most one collaborator refuses, the
\* listings vary when none does, a field is withheld only when none refuses
\* and the listing is empty, and the default fields and the controller's
\* response vary when nothing else does.
Envs == { e \in AllEnvs :
            \/ Refusals(e) = 0 /\ e.listing = <<>> /\ e.hidden_fields = {}
            \/ /\ e.default_fields = { K_doctype, K_owner }
               /\ e.controller_response = EmptyDict
               /\ \/ Refusals(e) = 0 /\ (e.listing = <<>> \/ e.hidden_fields = {})
                  \/ Refusals(e) = 1 /\ e.listing = <<>> /\ e.hidden_fields = {} }

\* The requests the model draws: every path with every verb, with and
\* without run_method; the reads with every form; the writes with every
\* body.
ResourcePaths == { p \in Paths : Len(p) > 13 /\ SubSeq(p, 1, 13) = <<"/","a","p","i","/","r","e","s","o","u","r","c","e">>
                                  /\ Len(Split(p, "/")) < 6 }
RouterRequests ==
    [path : Paths, method : Methods,
     form : { EmptyDict, kv(K_run_method, <<"s","u","b","m","i","t">>) },
     body : { [ok |-> FALSE, value |-> EmptyDict] }, user : { "Guest" }]
    \cup
    [path : ResourcePaths, method : { "GET" }, form : RouterForms,
     body : { [ok |-> FALSE, value |-> EmptyDict] }, user : RouterUsers]
    \cup
    [path : ResourcePaths, method : { "POST", "PUT" }, form : { EmptyDict },
     body : Bodies, user : { "Guest" }]

\* -------------------------------------------------- the stages, as the code
\* The stages work on the request's mutable state: a record st of the
\* session identity, the API-key mark, the form parameters, the credential
\* cache, the validation log and the error raised ("None": none).
State == [user |-> user, api_user |-> api_user, form_dict |-> form_dict,
          cache |-> cache, keylog |-> keylog, error |-> error,
          login_manager |-> login_manager]

\* validate_oauth: an unknown token makes get_value return None, whose
\* .split raises the AttributeError the stage swallows; a verified token sets
\* the user and restores the form parameters.  valid is verify_request's
\* verdict.
validate_oauth_unguarded(authorization_header, valid, st) ==
    LET form == st.form_dict
        tok  == authorization_header[2]
    IN  IF ~OAuthKnown(tok) THEN [st EXCEPT !.error = "AttributeError"]
        ELSE IF valid
             THEN [set_user(st, OAuthUser(tok)) EXCEPT !.form_dict = form]
             ELSE st

validate_oauth(authorization_header, valid, st) ==
    LET form == st.form_dict
        tok  == authorization_header[2]
    IN  IF ~OAuthKnown(tok) THEN st
        ELSE IF valid
             THEN [set_user(st, OAuthUser(tok)) EXCEPT !.form_dict = form]
             ELSE st

\* validate_api_key_secret, lines 346-356: the document and the secret for
\* the key, from the cache or, on a miss, from the store, which populates
\* the cache.  decrypted tells whether get_decrypted_password was called.
ResolveSecret_uncached(doctype, api_key, c) ==
    LET doc        == RecordByKey(doctype, api_key)
        doc_secret == get_decrypted_password(doctype, doc)
    IN  [doc |-> doc, doc_secret |-> doc_secret,
         cache |-> hset(c, api_key, [user |-> doc, api_secret |-> doc_secret]),
         decrypted |-> TRUE]

ResolveSecret(doctype, api_key, c) ==
    IF hget(c, api_key)
    THEN [doc |-> c[api_key].user, doc_secret |-> c[api_key].api_secret,
          cache |-> c, decrypted |-> FALSE]
    ELSE LET doc        == RecordByKey(doctype, api_key)
             doc_secret == get_decrypted_password(doctype, doc)
         IN  [doc |-> doc, doc_secret |-> doc_secret,
              cache |-> hset(c, api_key, [user |-> doc, api_secret |-> doc_secret]),
              decrypted |-> TRUE]

\* line 358: api_secret == doc_secret.
SecretMatches_anyKnown(api_secret, doc_secret) == doc_secret /= None

SecretMatches(api_secret, doc_secret) == api_secret = doc_secret

\* frappe.local.login_manager.user, which line 366 reads.
login_manager_user(st) == st.login_manager.user

\* line 366: ... in ("", "Guest").
IsAnonymous(u) == u \in {"", "Guest"}

\* One validation, as the log keeps it.
LogEntry(api_secret, src, resolved, decrypted) ==
    [api_secret |-> api_secret, source |-> src, resolved |-> resolved,
     decrypted |-> decrypted]
Logged(log, api_key, entry) ==
    [k \in DOMAIN log \cup {api_key} |->
        IF k = api_key
        THEN (IF k \in DOMAIN log THEN Append(log[k], entry) ELSE <<entry>>)
        ELSE log[k]]

validate_api_key_secret(api_key, api_secret, frappe_authorization_source, st) ==
    LET doctype == IF frappe_authorization_source \in {NoName, ""}
                   THEN "User" ELSE frappe_authorization_source
        form    == st.form_dict
        r       == ResolveSecret(doctype, api_key, st.cache)
        st1     == [st EXCEPT !.cache = r.cache]
    IN  IF SecretMatches(api_secret, r.doc_secret)
        THEN LET usr == IF doctype = "User" THEN r.doc
                        ELSE UserOfRecord(doctype, r.doc)
                 st2 == [st1 EXCEPT !.api_user = TRUE]
                 st3 == IF IsAnonymous(login_manager_user(st2))
                        THEN set_user(st2, usr) ELSE st2
             IN  [st3 EXCEPT !.form_dict = form,
                             !.keylog = Logged(st.keylog, api_key,
                                 LogEntry(api_secret, frappe_authorization_source,
                                          usr, r.decrypted))]
        ELSE [st1 EXCEPT !.keylog = Logged(st.keylog, api_key,
                                 LogEntry(api_secret, frappe_authorization_source,
                                          "NoMatch", r.decrypted))]

KeyAndSecret_firstTwo(text) ==
    LET parts == Split(text, ":")
    IN  [ok |-> Len(parts) >= 2,
         api_key |-> parts[1],
         api_secret |-> IF Len(parts) >= 2 THEN parts[2] ELSE None]

\* The api key and secret a credential text splits into: the tuple unpacking
\* of text.split(":") raises ValueError unless there are exactly two parts.
KeyAndSecret(text) ==
    LET parts == Split(text, ":")
    IN  [ok |-> Len(parts) = 2,
         api_key |-> parts[1],
         api_secret |-> IF Len(parts) >= 2 THEN parts[2] ELSE None]

\* validate_auth_via_api_keys: binascii.Error becomes the
\* InvalidAuthorizationToken that frappe.throw raises; AttributeError,
\* TypeError and ValueError (that of b64decode for a character outside
\* ASCII, UnicodeDecodeError and that of the tuple unpacking) are swallowed.
validate_auth_via_api_keys(authorization_header, authorization_source, st) ==
    LET auth_type  == authorization_header[1]
        auth_token == authorization_header[2]
    IN  IF Lower(auth_type) = basic
        THEN LET raw == b64decode(auth_token)
                 dec == safe_decode(raw.bytes)
                 ks  == KeyAndSecret(dec.text)
             IN  IF raw.error = "binascii.Error"
                 THEN [st EXCEPT !.error = "InvalidAuthorizationToken"]
                 ELSE IF ~raw.ok \/ ~dec.ok \/ ~ks.ok THEN st
                 ELSE validate_api_key_secret(ks.api_key, ks.api_secret,
                                              authorization_source, st)
        ELSE IF Lower(auth_type) = token
        THEN LET ks == KeyAndSecret(auth_token)
             IN  IF ~ks.ok THEN st
                 ELSE validate_api_key_secret(ks.api_key, ks.api_secret,
                                              authorization_source, st)
        ELSE st

\* --------------------------------------------- router: the collaborators
\* The router works on the request's mutable state: a record rs of the form
\* parameters, the response, the error raised ("None": none), the
\* collaborator calls made, the document store and get_list's result.
RouterState == [form_dict |-> form_dict, response |-> response, error |-> error,
                ops |-> ops, docs |-> docs, listed |-> listed]
Raise(rs, e) == [rs EXCEPT !.error = e]
Called(rs, op) == [rs EXCEPT !.ops = Append(@, op)]
Respond(rs, d) == [rs EXCEPT !.response = Update(@, d)]

\* Python truthiness of a value: None, "", False, 0, 0.0, [] and {} are
\* falsy.
Truthy(v) ==
    v \notin { None, <<>>, <<"False">>, <<"int", 0>>, <<"float", 0, 0>>,
               <<"list">>, <<"dict", EmptyDict>> }

\* Document.as_dict: the field mapping, without the null fields under
\* no_nulls and without the store's default fields under no_default_fields.
as_dict(fields, no_nulls, no_default_fields, default_fields) ==
    [k \in { x \in DOMAIN fields :
                /\ no_nulls => fields[x] /= None
                /\ no_default_fields => x \notin default_fields } |-> fields[k]]

\* frappe.scrub, and the module lookups of the five-segment path.
scrub(txt) == Lower(Replace(Replace(txt, " ", "_"), "-", "_"))
get_doctype_module(doctype) == <<"D","e","s","k">>
get_module_app(module) == <<"f","r","a","p","p","e">>
get_module_name(doctype, module, prefix, suffix, app) ==
    scrub(app) \o <<".">> \o scrub(module) \o <<".","d","o","c","t","y","p","e",".">> \o scrub(doctype)
        \o <<".">> \o prefix \o scrub(doctype) \o suffix

\* frappe.utils.data.sbool: "true"/"1" and "false"/"0", in any letter case,
\* become booleans; anything else is returned as it is.
sbool(x) ==
    IF Lower(x) \in { <<"t","r","u","e">>, <<"1">> } THEN TRUE
    ELSE IF Lower(x) \in { <<"f","a","l","s","e">>, <<"0">> } THEN FALSE
    ELSE x

\* str.replace("@example.com", "") on the session users of the model.
WithoutExampleDomain(u) == IF u = "tsp1@example.com" THEN "tsp1" ELSE u

\* The name the store gives the n-th request's new document.
NewName(n) == <<"N", DigitChars[n + 1]>>

\* ------------------------------------------------- router: the operations
\* get_request_form_data: the parsed form_dict.data or request body, or the
\* form parameters themselves when parse_json raises ValueError.
\* same tells that the result is the form_dict object itself, so that
\* the caller's changes to it are changes to the form parameters.
get_request_form_data(form, reqbody) ==
    LET src == IF K_data \in DOMAIN form THEN form[K_data] ELSE reqbody
    IN  [same |-> ~src.ok, value |-> IF src.ok THEN src.value ELSE form]

\* get_doc, lines 158-165: the response data of a single document.
\* A list or a dict is no key of a dict (TypeError: unhashable).
Hashable(v) == ~IsList(v) /\ ~IsDict(v)
\* A float below 1e-307 as the double that Python makes of it.  Below
\* 2^-1021 the doubles are the multiples of 2^-1074, so the double of
\* m * 10^e is k * 2^-1074 for the integer k nearest to |m| * 10^e * 2^1074
\* (no tie is possible for an m of ten digits); from 2^-1021 to 1e-307 two
\* floats of ten digits that differ are two doubles, and two k.  The result
\* is the decimal digits of k, lowest first.  The numbers are sequences of limbs of four digits, lowest
\* first; 2^1074 is spelled out so.
SubnormalDouble(m, e) ==
    LET RECURSIVE Times(_, _, _)
        Times(p, n, c) ==
            IF p = <<>> THEN (IF c = 0 THEN <<>> ELSE <<c>>)
            ELSE <<(p[1] * n + c) % 10000>>
                    \o Times(Tail(p), n, (p[1] * n + c) \div 10000)
        RECURSIVE Plus(_, _, _, _)
        Plus(a, b, c, base) ==
            IF a = <<>> /\ b = <<>> THEN (IF c = 0 THEN <<>> ELSE <<c>>)
            ELSE LET x == (IF a = <<>> THEN 0 ELSE a[1])
                          + (IF b = <<>> THEN 0 ELSE b[1]) + c
                 IN  <<x % base>> \o Plus(IF a = <<>> THEN a ELSE Tail(a),
                                          IF b = <<>> THEN b ELSE Tail(b),
                                          x \div base, base)
        RECURSIVE Trim(_)
        Trim(d) == IF d /= <<>> /\ d[Len(d)] = 0
                   THEN Trim(SubSeq(d, 1, Len(d) - 1)) ELSE d
        Scaled(pow2) ==
            Plus(Times(pow2, Abs(m) % 10000, 0),
                 <<0>> \o Times(pow2, Abs(m) \div 10000, 0), 0, 10000)
        Digits(limbs) ==
            [i \in 1..(4 * Len(limbs)) |->
                (limbs[(i - 1) \div 4 + 1] \div Pow10((i - 1) % 4)) % 10]
        Rounded(prod, q) ==
            Trim(IF q <= Len(prod) /\ prod[q] >= 5
                 THEN Plus(SubSeq(prod, q + 1, Len(prod)), <<1>>, 0, 10)
                 ELSE SubSeq(prod, q + 1, Len(prod)))
    IN  Rounded(Digits(Scaled(<<
       4784,9349,7410,7707,6330,62,8646,2750,1863,2532,3050,6152,3414,5233,
       7695,2358,5651,8100,6340,5955,6491,3355,1810,6986,4692,8342,74,8562,
       4506,4727,7678,3976,3412,3216,4209,9077,4466,6136,5663,4276,1742,
       9215,8509,4073,3999,7013,7686,7934,7385,873,3898,1911,1681,8643,7077,
       9518,1244,1437,8370,9603,6891,9534,5679,339,2743,3580,6901,1835,1421,
       9764,5664,495,7307,1891,3467,2495,1835,3106,3307,225,2024 >>)), 0 - e)

\* Keys that are equal are one key: True is 1, False is 0, a float with an
\* integer value is that integer, and two floats that are one double are
\* one key (one that is the double 0.0 is the integer 0).  Floats of 1e-307
\* and more are different doubles when their decimals differ.  (Python keeps two NaN items as two keys; here they are
\* one.)
PyKey(v) ==
    IF v = <<"True">> THEN <<"int", 1>>
    ELSE IF v = <<"False">> THEN <<"int", 0>>
    ELSE IF Len(v) = 3 /\ v[1] = "float" /\ v[3] >= 0
            /\ \/ NumDigits(Abs(v[2])) + v[3] <= 9
               \/ /\ NumDigits(Abs(v[2])) + v[3] = 10
                  /\ v[3] > 0 => Abs(v[2]) * Pow10(v[3] - 1) <= 214748364
         THEN <<"int", v[2] * Pow10(v[3])>>
    ELSE IF Len(v) = 3 /\ v[1] = "float" /\ v[3] < 0
            /\ NumDigits(Abs(v[2])) + v[3] <= 0 - 307
         THEN LET k == SubnormalDouble(v[2], v[3])
              IN  IF k = <<>> THEN <<"int", 0>>
                  ELSE <<"double", IF v[2] < 0 THEN "-" ELSE "+", k>>
    ELSE v
\* The dict a comprehension over fields builds keeps the first of equal
\* keys.
FirstKeys(fields) ==
    { i \in 1..Len(fields) :
        \A j \in 1..(i - 1) : PyKey(fields[j]) /= PyKey(fields[i]) }
DocData(doc, fields, default_fields) ==
    LET d  == as_dict(doc, TRUE, TRUE, default_fields)
        d1 == IF fields /= <<>>
              THEN [f \in { fields[i] : i \in FirstKeys(fields) } |-> Get(d, f)]
              ELSE d
    IN  Update(d1, kv(K_id, doc[K_name]))

\* Document.apply_fieldlevel_read_permissions: the values the caller may
\* not read are taken off the loaded document (they read as null from then
\* on); the stored document is untouched.
apply_fieldlevel_read_permissions(doc, hidden) ==
    [k \in DOMAIN doc |-> IF k \in hidden THEN None ELSE doc[k]]

\* get_doc: the document is loaded and the read permission asked; the
\* restricted document is projected on the fields (a list or a dict among
\* them raises TypeError) and answered with id.
get_doc(rs, doctype, name, env) ==
    LET ReadDoc(rs1, doc, f) ==
            IF f.error /= "None" THEN Raise(rs1, f.error)
            ELSE IF \E i \in 1..Len(f.list) : ~Hashable(f.list[i])
                 THEN Raise(rs1, "TypeError")
            ELSE Respond(rs1, kv(K_data, DocData(doc, f.list, env.default_fields)))
    IN  IF <<doctype, name>> \notin DOMAIN rs.docs
        THEN Raise(Called(rs, "get_doc"), "DoesNotExistError")
        ELSE IF ~env.perm_read
             THEN Raise(Called(Called(rs, "get_doc"), "has_permission"),
                        "PermissionError")
        ELSE ReadDoc(Called(Called(rs, "get_doc"), "has_permission"),
                     apply_fieldlevel_read_permissions(
                         rs.docs[<<doctype, name>>], env.hidden_fields),
                     _fields(rs.form_dict))

\* line 184: doc.get("parenttype") is truthy.
IsChildRow_never(doc) == FALSE

IsChildRow(doc) == Truthy(Get(doc, K_parenttype))

update_doc(rs, doctype, name, env) ==
    LET data  == get_request_form_data(rs.form_dict, body)
        rs1   == Called(rs, "get_doc")
        key   == <<doctype, name>>
        data1 == IF K_flags \in DOMAIN data.value
                 THEN Without(data.value, K_flags) ELSE data.value
    IN  IF key \notin DOMAIN rs.docs THEN Raise(rs1, "DoesNotExistError")
        ELSE
        LET doc == Update(rs.docs[key], data1)
            rs2 == Called([rs1 EXCEPT !.form_dict = IF data.same THEN data1 ELSE @],
                          "save")
        IN  IF ~env.store_ok THEN Raise(rs2, "ValidationError")
            ELSE
            LET rs3 == Respond([rs2 EXCEPT !.docs = Update(@, key :> doc)],
                               kv(K_data, Update(as_dict(doc, FALSE, TRUE,
                                                         env.default_fields),
                                                 kv(K_id, doc[K_name]))))
            IN  IF IsChildRow(doc)
                THEN LET pkey == <<doc[K_parenttype], Get(doc, K_parent)>>
                         rs4  == Called(rs3, "get_doc")
                     IN  IF pkey \notin DOMAIN rs.docs
                         THEN Raise(rs4, "DoesNotExistError")
                         ELSE Called(Called(rs4, "save"), "commit")
                ELSE Called(rs3, "commit")

delete_doc_alwaysCommit(rs, doctype, name, env) ==
    LET rs1 == Called(rs, "delete_doc")
        key == <<doctype, name>>
    IN  IF key \notin DOMAIN rs.docs THEN Raise(rs1, "DoesNotExistError")
        ELSE IF ~env.store_ok THEN Called(Raise(rs1, "PermissionError"), "commit")
        ELSE Called(Respond([rs1 EXCEPT !.docs = [k \in DOMAIN @ \ {key} |-> @[k]]],
                            kv(K_http_status_code, <<"int", 202>>) @@ kv(K_message, <<"o","k">>)),
                    "commit")

delete_doc(rs, doctype, name, env) ==
    LET rs1 == Called(rs, "delete_doc")
        key == <<doctype, name>>
    IN  IF key \notin DOMAIN rs.docs THEN Raise(rs1, "DoesNotExistError")
        ELSE IF ~env.store_ok THEN Raise(rs1, "PermissionError")
        ELSE Called(Respond([rs1 EXCEPT !.docs = [k \in DOMAIN @ \ {key} |-> @[k]]],
                            kv(K_http_status_code, <<"int", 202>>) @@ kv(K_message, <<"o","k">>)),
                    "commit")

\* get_doc_list, lines 223-226: name becomes id in a listed record.
Renamed(d) ==
    IF K_name \in DOMAIN d
    THEN Without(Update(d, kv(K_id, d[K_name])), K_name)
    ELSE d

\* lines 196-197: a fields parameter is replaced by the parsed list.
ListFields(f0, f) ==
    IF K_fields \in DOMAIN f0 /\ Truthy(f0[K_fields])
    THEN Update(f0, kv(K_fields, f.list)) ELSE f0

\* lines 201-204: limit, else limit_page_length, else 20, kept under
\* limit_page_length unless that key is already there.
ListLimit(f1) ==
    IF K_limit_page_length \in DOMAIN f1 THEN f1
    ELSE Update(f1, kv(K_limit_page_length,
                       IF Truthy(Get(f1, K_limit)) THEN f1[K_limit]
                       ELSE IF Truthy(Get(f1, K_limit_page_length))
                            THEN f1[K_limit_page_length] ELSE 20))

\* lines 206-209: as_dict and debug become booleans when present.
ListFlags(f2) ==
    [k \in DOMAIN f2 |->
        IF k \in {K_as_dict, K_debug} /\ f2[k] /= None
        THEN sbool(f2[k]) ELSE f2[k]]

\* lines 211-220: a Customer listing is narrowed to the caller's tenant.  A
\* filters parameter that is no list (a text, say) has no append: the
\* AttributeError is caught and printed.
TenantFilter(f3, doctype, u) ==
    LET filter == <<"list", <<"T","S","P"," ","L","i","s","t">>, <<"t","s","p">>,
                    <<"=">>, WithoutExampleDomain(u)>>
    IN  IF doctype /= Customer THEN f3
        ELSE IF K_filters \notin DOMAIN f3
             THEN Update(f3, kv(K_filters, <<"list", filter>>))
        ELSE IF IsList(f3[K_filters])
             THEN Update(f3, kv(K_filters, Append(f3[K_filters], filter)))
        ELSE f3

\* get_doc_list: _fields first (its exception ends the request), then the
\* form parameters are made ready, get_list is called with them and its
\* records are answered with name renamed.
get_doc_list(rs, doctype, env) ==
    LET ListDocs(rs1, f) ==
            IF f.error /= "None" THEN Raise(rs, f.error)
            ELSE IF ~env.perm_read THEN Raise(rs1, "PermissionError")
            ELSE Respond([rs1 EXCEPT !.listed = env.listing],
                         kv(K_data, [i \in 1..Len(env.listing) |->
                                        Renamed(env.listing[i])]))
        ListForm(f) ==
            Called([rs EXCEPT !.form_dict =
                         TenantFilter(ListFlags(ListLimit(
                                          ListFields(rs.form_dict, f))),
                                      doctype, user)],
                   "get_list")
        ListWith(f) == ListDocs(ListForm(f), f)
    IN  ListWith(_fields(rs.form_dict))

\* create_doc: the document's controller may put a status of its own in the
\* response while the document is saved; line 241 keeps it when it is
\* truthy.
create_doc(rs, doctype, env) ==
    LET got  == get_request_form_data(rs.form_dict, body)
        data == Update(got.value, kv(K_doctype, doctype))
        name == NewName(nreq)
        doc  == Update(data, kv(K_name, name) @@ kv(K_islocal, TRUE))
        rs0  == [rs EXCEPT !.form_dict = IF got.same THEN data ELSE @]
        rs1  == Called(Called(rs0, "get_doc"), "check_doc_exists")
        rs2  == Called(rs1, "save")
    IN  IF ~env.store_ok THEN Raise(rs2, "ValidationError")
        ELSE
        LET rs3 == Respond([rs2 EXCEPT !.docs = Update(@, <<doctype, name>> :> doc)],
                           env.controller_response)
            rs4 == IF Truthy(Get(rs3.response, K_http_status_code)) THEN rs3
                   ELSE Respond(rs3, kv(K_http_status_code, <<"int", 201>>))
        IN  Called(Respond(rs4, kv(K_data, Update(as_dict(doc, FALSE, TRUE,
                                                         env.default_fields),
                                                  kv(K_id, name)))),
                   "commit")

execute_doc_method_unchecked(rs, doctype, name, env) ==
    LET meth == rs.form_dict[K_run_method]
        rs1  == Called([rs EXCEPT !.form_dict = Without(@, K_run_method)], "get_doc")
        rs2  == Called(rs1, "is_whitelisted")
        rs3  == Called(rs2, "has_permission")
        ran  == Called(Respond(rs3, kv(K_data, <<"result of", meth>>)), "run_method")
    IN  IF <<doctype, name>> \notin DOMAIN rs.docs THEN Raise(rs1, "DoesNotExistError")
        ELSE IF ~env.whitelisted THEN Raise(rs2, "PermissionError")
        ELSE IF method = "GET" THEN ran
        ELSE IF method = "POST" THEN Called(ran, "commit")
        ELSE rs2

\* execute_doc_method: a verb other than GET and POST falls through both
\* branches and the method returns normally.
execute_doc_method(rs, doctype, name, env) ==
    LET meth == rs.form_dict[K_run_method]
        rs1  == Called([rs EXCEPT !.form_dict = Without(@, K_run_method)], "get_doc")
        rs2  == Called(rs1, "is_whitelisted")
        rs3  == Called(rs2, "has_permission")
        ran  == Called(Respond(rs3, kv(K_data, <<"result of", meth>>)), "run_method")
    IN  IF <<doctype, name>> \notin DOMAIN rs.docs THEN Raise(rs1, "DoesNotExistError")
        ELSE IF ~env.whitelisted THEN Raise(rs2, "PermissionError")
        ELSE IF method = "GET"
             THEN IF ~env.perm_read THEN Raise(rs3, "PermissionError") ELSE ran
        ELSE IF method = "POST"
             THEN IF ~env.perm_write THEN Raise(rs3, "PermissionError")
                  ELSE Called(ran, "commit")
        ELSE rs2

handle_document_resource(rs, doctype, name, env) ==
    IF K_run_method \in DOMAIN rs.form_dict
    THEN execute_doc_method(rs, doctype, name, env)
    ELSE CASE method = "GET"    -> get_doc(rs, doctype, name, env)
           [] method = "PUT"    -> update_doc(rs, doctype, name, env)
           [] method = "DELETE" -> delete_doc(rs, doctype, name, env)
           [] OTHER             -> Raise(rs, "DoesNotExistError")

handle_doctype_resource(rs, doctype, env) ==
    CASE method = "GET"  -> get_doc_list(rs, doctype, env)
      [] method = "POST" -> create_doc(rs, doctype, env)
      [] OTHER           -> Raise(rs, "DoesNotExistError")

\* handle_resource: None and "" are both falsy.
handle_resource(rs, doctype, name, env) ==
    IF Truthy(doctype) /\ Truthy(name)
    THEN handle_document_resource(rs, doctype, name, env)
    ELSE IF Truthy(doctype) THEN handle_doctype_resource(rs, doctype, env)
    ELSE Raise(rs, "DoesNotExistError")

\* handle_method: the command is handed to frappe.handler.handle.
handle_method(rs, doctype) ==
    Called([rs EXCEPT !.form_dict = Update(@, kv(K_cmd, doctype))],
           "frappe.handler.handle")

\* _RESTAPIHandler.get_response.
get_response(rs, call, doctype, name, env) ==
    CASE call = <<"m","e","t","h","o","d">>   -> handle_method(rs, doctype)
      [] call = <<"r","e","s","o","u","r","c","e">> -> handle_resource(rs, doctype, name, env)
      [] OTHER               -> Raise(rs, "DoesNotExistError")

\* handle, lines 42-61: the route the path is parsed into.  ok = FALSE: the
\* doctype segment is empty and doctype[0] raises IndexError.
Route(p) ==
    LET parts == Split(IF p = <<>> THEN p ELSE Tail(p), "/")
        call0 == IF Len(parts) > 1 THEN parts[2] ELSE None
        seg3  == IF Len(parts) > 2 THEN parts[3] ELSE None
        doct0 == IF Len(parts) > 2 /\ call0 = <<"r","e","s","o","u","r","c","e">> /\ seg3 /= <<>>
                    /\ IsLowerChar(seg3[1])
                 THEN unscrub(seg3) ELSE seg3
        name  == IF Len(parts) > 3 THEN parts[4] ELSE None
        sub   == Len(parts) > 4
    IN  [ok      |-> ~(Len(parts) > 2 /\ call0 = <<"r","e","s","o","u","r","c","e">> /\ seg3 = <<>>),
         sub     |-> sub,
         call    |-> IF sub THEN <<"m","e","t","h","o","d">> ELSE call0,
         doctype |-> IF sub
                     THEN get_module_name(doct0, get_doctype_module(doct0), <<>>,
                                          <<".">> \o Replace(parts[5], "-", "_"),
                                          get_module_app(get_doctype_module(doct0)))
                     ELSE doct0,
         name    |-> name]

handle(rs, env) ==
    LET r   == Route(path)
        rs1 == IF r.sub THEN [rs EXCEPT !.form_dict = Update(@, kv(K_name, r.name))]
               ELSE rs
    IN  IF ~r.ok THEN Raise(rs, "IndexError")
        ELSE get_response(rs1, r.call, r.doctype, r.name, env)

\* ------------------------------------------------------------------ actions
HooksRun ==
    LET IsHook(x) == x \in {"h1", "h2"}
    IN  SelectSeq(trace, IsHook)

Commit(st) ==
    /\ user' = st.user
    /\ api_user' = st.api_user
    /\ form_dict' = st.form_dict
    /\ cache' = st.cache
    /\ keylog' = st.keylog
    /\ error' = st.error
    /\ login_manager' = st.login_manager

\* A request arrives: its headers and form parameters are set, the session
\* is anonymous, the login manager holds the session's user and nothing is
\* marked.
Request(h, src, fd, anon) ==
    /\ pc \in {"idle", "done", "raised"}
    /\ nreq < MaxRequests
    /\ nreq' = nreq + 1
    /\ pc' = "validate_auth"
    /\ header' = h
    /\ source' = src
    /\ form_dict' = fd
    /\ user' = anon
    /\ login_manager' = [login_manager EXCEPT !.user = anon]
    /\ api_user' = FALSE
    /\ error' = "None"
    /\ trace' = <<>>
    /\ UNCHANGED <<auth_hooks, cache, keylog, routervars, workers>>

validate_auth_atLeastTwo ==
    /\ pc = "validate_auth"
    /\ pc' = IF Len(Split(header, " ")) >= 2
             THEN "validate_oauth" ELSE "validate_auth_via_hooks"
    /\ UNCHANGED <<nreq, header, source, user, api_user, form_dict, error,
                   trace, auth_hooks, cache, keylog, login_manager,
                   routervars, workers>>

\* validate_auth, lines 270-272: the header is split on " "; only a header
\* of exactly two tokens goes through the OAuth and API-key stages.
validate_auth ==
    /\ pc = "validate_auth"
    /\ pc' = IF Len(Split(header, " ")) = 2
             THEN "validate_oauth" ELSE "validate_auth_via_hooks"
    /\ UNCHANGED <<nreq, header, source, user, api_user, form_dict, error,
                   trace, auth_hooks, cache, keylog, login_manager,
                   routervars, workers>>

validate_oauth_step(valid) ==
    /\ pc = "validate_oauth"
    /\ Commit(validate_oauth(Split(header, " "), valid, State))
    /\ trace' = Append(trace, "validate_oauth")
    /\ pc' = IF validate_oauth(Split(header, " "), valid, State).error = "None"
             THEN "validate_auth_via_api_keys" ELSE "raised"
    /\ UNCHANGED <<nreq, header, source, auth_hooks, routervars, workers>>

validate_auth_via_api_keys_step ==
    /\ pc = "validate_auth_via_api_keys"
    /\ \E st \in { validate_auth_via_api_keys(Split(header, " "), source, State) } :
           /\ Commit(st)
           /\ pc' = IF st.error = "None" THEN "validate_auth_via_hooks" ELSE "raised"
    /\ trace' = Append(trace, "validate_auth_via_api_keys")
    /\ UNCHANGED <<nreq, header, source, auth_hooks, routervars, workers>>

\* validate_auth_via_hooks, one iteration: the next registered hook is
\* called; a hook may leave the session alone, set the user itself, or
\* raise.  Line 373 has no handler: what a hook raises leaves validate_auth
\* and the hooks registered after it are not called.
NextHook_reversed(hooks, run) == hooks[Len(hooks) - Len(run)]

NextHook(hooks, run) == hooks[Len(run) + 1]
auth_hook(outcome) ==
    /\ pc = "validate_auth_via_hooks"
    /\ Len(HooksRun) < Len(auth_hooks)
    /\ trace' = Append(trace, NextHook(auth_hooks, HooksRun))
    /\ Commit(CASE outcome = "sets"   -> set_user(State, HookUser)
                [] outcome = "raises" -> [State EXCEPT !.error = HookError]
                [] OTHER              -> State)
    /\ pc' = IF outcome = "raises" THEN "raised" ELSE pc
    /\ UNCHANGED <<nreq, header, source, auth_hooks, routervars, workers>>

\* validate_auth_via_hooks returns once every hook was called, and with it
\* validate_auth.
validate_auth_return ==
    /\ pc = "validate_auth_via_hooks"
    /\ Len(HooksRun) = Len(auth_hooks)
    /\ pc' = "done"
    /\ UNCHANGED <<nreq, header, source, user, api_user, form_dict, error,
                   trace, auth_hooks, cache, keylog, login_manager,
                   routervars, workers>>

\* The cache collaborator evicts an entry between two requests.
CacheEvict(key) ==
    /\ pc \in {"done", "raised"}
    /\ key \in DOMAIN cache
    /\ cache' = [k \in DOMAIN cache \ {key} |-> cache[k]]
    /\ keylog' = [k \in DOMAIN keylog \ {key} |-> keylog[k]]
    /\ UNCHANGED <<nreq, pc, header, source, user, api_user, form_dict, error,
                   trace, auth_hooks, login_manager, routervars, workers>>

Init ==
    /\ nreq = 0
    /\ pc = "idle"
    /\ header = <<>>
    /\ source = NoName
    /\ user = "Guest"
    /\ api_user = FALSE
    /\ form_dict = EmptyDict
    /\ error = "None"
    /\ trace = <<>>
    /\ auth_hooks \in HookLists
    /\ cache = EmptyDict
    /\ keylog = EmptyDict
    /\ login_manager \in LoginManagers
    /\ path = <<>>
    /\ method = "GET"
    /\ body = [ok |-> FALSE, value |-> EmptyDict]
    /\ response = EmptyDict
    /\ docs = InitialDocs
    /\ ops = <<>>
    /\ listed = <<>>
    /\ req_form = EmptyDict
    /\ workers = <<>>

Next ==
    \/ \E h \in AuthHeaders, src \in AuthSources, fd \in AuthForms,
          anon \in {"", "Guest"} : Request(h, src, fd, anon)
    \/ validate_auth
    \/ \E valid \in BOOLEAN : validate_oauth_step(valid)
    \/ validate_auth_via_api_keys_step
    \/ \E outcome \in {"returns", "sets", "raises"} : auth_hook(outcome)
    \/ validate_auth_return
    \/ \E key \in DOMAIN cache : CacheEvict(key)

Spec == Init /\ [][Next]_vars

\* ------------------------------------------------ concurrent validations
\* Several requests run validate_api_key_secret at the same time on one api
\* key, without a Frappe-Authorization-Source header; each has its own
\* frappe.local and they share frappe.cache.  A step is one call to a
\* collaborator: hget (line 347), get_value (line 354),
\* get_decrypted_password (line 355), hset (line 356), and the comparison
\* with what follows it (lines 358-367).
RaceKey == <<"a">>
RaceSecrets == { <<"b">>, <<"c">> }
Worker(secret, lm) ==
    [pc |-> "hget", api_secret |-> secret, doc |-> NoName, doc_secret |-> None,
     decrypted |-> FALSE, user |-> "Guest", api_user |-> FALSE,
     form_dict |-> EmptyDict, login_manager |-> lm]
requestvars == <<nreq, pc, user, form_dict, error, header, source, api_user,
                 trace, auth_hooks, keylog, login_manager, routervars>>

hget_step(w) ==
    /\ workers[w].pc = "hget"
    /\ workers' = [workers EXCEPT ![w] =
          IF hget(cache, RaceKey)
          THEN [@ EXCEPT !.doc = cache[RaceKey].user,
                         !.doc_secret = cache[RaceKey].api_secret,
                         !.pc = "compare"]
          ELSE [@ EXCEPT !.pc = "get_value"]]
    /\ UNCHANGED <<cache, requestvars>>

get_value_step(w) ==
    /\ workers[w].pc = "get_value"
    /\ workers' = [workers EXCEPT ![w].doc = RecordByKey("User", RaceKey),
                                  ![w].pc = "get_decrypted_password"]
    /\ UNCHANGED <<cache, requestvars>>

get_decrypted_password_step(w) ==
    /\ workers[w].pc = "get_decrypted_password"
    /\ workers' = [workers EXCEPT
                     ![w].doc_secret = get_decrypted_password("User", workers[w].doc),
                     ![w].decrypted = TRUE,
                     ![w].pc = "hset"]
    /\ UNCHANGED <<cache, requestvars>>

hset_step_suppliedSecret(w) ==
    /\ workers[w].pc = "hset"
    /\ cache' = hset(cache, RaceKey, [user |-> workers[w].doc,
                                      api_secret |-> workers[w].api_secret])
    /\ workers' = [workers EXCEPT ![w].pc = "compare"]
    /\ UNCHANGED requestvars

hset_step(w) ==
    /\ workers[w].pc = "hset"
    /\ cache' = hset(cache, RaceKey, [user |-> workers[w].doc,
                                      api_secret |-> workers[w].doc_secret])
    /\ workers' = [workers EXCEPT ![w].pc = "compare"]
    /\ UNCHANGED requestvars

compare_step(w) ==
    /\ workers[w].pc = "compare"
    /\ workers' = [workers EXCEPT ![w] =
          IF SecretMatches(@.api_secret, @.doc_secret)
          THEN LET st2 == [@ EXCEPT !.api_user = TRUE]
                   st3 == IF IsAnonymous(login_manager_user(st2))
                          THEN set_user(st2, @.doc)
                          ELSE st2
               IN  [st3 EXCEPT !.form_dict = workers[w].form_dict, !.pc = "done"]
          ELSE [@ EXCEPT !.pc = "done"]]
    /\ UNCHANGED <<cache, requestvars>>

InitRace ==
    /\ nreq = 0
    /\ pc = "idle"
    /\ header = <<>>
    /\ source = NoName
    /\ user = "Guest"
    /\ api_user = FALSE
    /\ form_dict = EmptyDict
    /\ error = "None"
    /\ trace = <<>>
    /\ auth_hooks = <<"h1","h2">>
    /\ cache = EmptyDict
    /\ keylog = EmptyDict
    /\ login_manager \in LoginManagers
    /\ path = <<>>
    /\ method = "GET"
    /\ body = [ok |-> FALSE, value |-> EmptyDict]
    /\ response = EmptyDict
    /\ docs = InitialDocs
    /\ ops = <<>>
    /\ listed = <<>>
    /\ req_form = EmptyDict
    /\ workers \in { [w \in 1..MaxWorkers |-> Worker(f[w], login_manager)] :
                        f \in [1..MaxWorkers -> RaceSecrets] }

RaceNext ==
    \E w \in DOMAIN workers :
        \/ hget_step(w)
        \/ get_value_step(w)
        \/ get_decrypted_password_step(w)
        \/ hset_step(w)
        \/ compare_step(w)

SpecRace == InitRace /\ [][RaceNext]_vars

\* ----------------------------------------------------------- router actions
\* A request reaches the router: its path, verb, form parameters and body
\* are set, the response is empty.
RouterRequest(p, m, fd, b, u) ==
    /\ pc = "idle"
    /\ nreq < MaxRouterRequests
    /\ nreq' = nreq + 1
    /\ pc' = "handle"
    /\ path' = p
    /\ method' = m
    /\ form_dict' = fd
    /\ body' = b
    /\ user' = u
    /\ error' = "None"
    /\ response' = EmptyDict
    /\ ops' = <<>>
    /\ listed' = <<>>
    /\ req_form' = fd
    /\ UNCHANGED <<docs, authvars, workers>>

\* handle() runs to its end: it returns the response (build_response, or
\* what frappe.handler.handle made) or raises.
handle_step(env) ==
    /\ pc = "handle"
    /\ \E rs \in { handle(RouterState, env) } :
           /\ form_dict' = rs.form_dict
           /\ response' = rs.response
           /\ error' = rs.error
           /\ ops' = rs.ops
           /\ docs' = rs.docs
           /\ listed' = rs.listed
           /\ pc' = IF rs.error = "None" THEN "responded" ELSE "failed"
    /\ UNCHANGED <<nreq, user, path, method, body, req_form, authvars, workers>>

\* The request is over: its request-scoped state is released.
RouterRequestEnd ==
    /\ pc \in {"responded", "failed"}
    /\ pc' = "idle"
    /\ path' = <<>>
    /\ method' = "GET"
    /\ form_dict' = EmptyDict
    /\ body' = [ok |-> FALSE, value |-> EmptyDict]
    /\ user' = "Guest"
    /\ error' = "None"
    /\ response' = EmptyDict
    /\ ops' = <<>>
    /\ listed' = <<>>
    /\ req_form' = EmptyDict
    /\ UNCHANGED <<nreq, docs, authvars, workers>>

RouterNext ==
    \/ \E r \in RouterRequests :
          RouterRequest(r.path, r.method, r.form, r.body, r.user)
    \/ \E env \in Envs : handle_step(env)
    \/ RouterRequestEnd

SpecRouter == Init /\ [][RouterNext]_vars

\* ------------------------------------------------------------------ claims
HeaderParts == Split(header, " ")
CoreStages == {"validate_oauth", "validate_auth_via_api_keys"}
Returned == pc \in {"done", "raised"}

\* C1, as claimed: whenever validate_auth has ended, by returning or by
\* raising, every registered hook has been invoked in registration order.
C1_HooksAlwaysRun == Returned => HooksRun = auth_hooks

\* C1, amended: when validate_auth returns, the hooks were invoked in
\* registration order, each once, after the OAuth and API-key stages (run or
\* skipped).  At every moment the calls made are stages first, then the
\* hooks in registration order as far as they got.  When an exception
\* leaves validate_auth, no hook is invoked after it: the invalid-token
\* error of the API-key stage leaves with no hook invoked, what a hook
\* raises leaves with the hooks registered after that one not invoked.
C1_HooksRunUnlessAborted ==
    /\ [](/\ \E core \in { <<>>, <<"validate_oauth">>,
                           <<"validate_oauth", "validate_auth_via_api_keys">> } :
                /\ trace = core \o HooksRun
                /\ HooksRun /= <<>> => Len(core) \in {0, 2}
          /\ Len(HooksRun) <= Len(auth_hooks)
          /\ HooksRun = SubSeq(auth_hooks, 1, Len(HooksRun))
          /\ pc = "done" => HooksRun = auth_hooks
          /\ (pc = "raised" /\ error = "InvalidAuthorizationToken") =>
                trace = <<"validate_oauth", "validate_auth_via_api_keys">>
          /\ (pc = "raised" /\ error = HookError) => HooksRun /= <<>>)
    /\ [][pc = "raised" => trace' \in {trace, <<>>}]_vars

\* validate_auth returned after both stages, the API-key stage having
\* authenticated the request, and every hook was invoked.
C1_Witness ==
    /\ pc = "done"
    /\ Len(trace) = 4
    /\ trace[1] = "validate_oauth"
    /\ api_user
    /\ HooksRun = auth_hooks

\* C2: in the OAuth and API-key stages, an identity that is no longer
\* anonymous is never changed: the identity moves at most once per request
\* in the core stages, and only away from "" or "Guest".
C2_NoReidentification ==
    [][(pc \in CoreStages /\ user' /= user) => user \in {"", "Guest"}]_vars

\* C3: a header whose scheme is Basic in any letter case and whose
\* credential base64.b64decode fails to decode makes validate_auth raise
\* InvalidAuthorizationToken: the request never gets past the API-key stage.
BadBasic ==
    /\ Len(HeaderParts) >= 2
    /\ Lower(HeaderParts[1]) = <<"b","a","s","i","c">>
    /\ ~b64decode(HeaderParts[2]).ok
C3_BadBase64Raises ==
    (BadBasic /\ pc \in {"validate_auth_via_hooks", "done", "raised"})
        => (pc = "raised" /\ error = "InvalidAuthorizationToken")

\* The credential a two-token header supplies to the API-key stage.
Supplied ==
    LET scheme == Lower(HeaderParts[1])
        raw    == b64decode(HeaderParts[2])
        text   == IF scheme = <<"b","a","s","i","c">>
                  THEN safe_decode(raw.bytes).text ELSE HeaderParts[2]
        parts  == Split(text, ":")
    IN  [ok |-> /\ scheme \in {<<"b","a","s","i","c">>, <<"t","o","k","e","n">>}
                /\ scheme = <<"b","a","s","i","c">> => raw.ok
                /\ Len(parts) = 2,
         api_key |-> parts[1],
         api_secret |-> IF Len(parts) = 2 THEN parts[2] ELSE None]
SourceDoctype(src) == IF src = NoName THEN "User" ELSE src
\* The secret the stage resolves for a key: the cached one or, on a miss,
\* the stored one.
Resolved(api_key) ==
    IF api_key \in DOMAIN cache THEN cache[api_key].api_secret
    ELSE IF \E r \in ApiRecords :
               r.doctype = SourceDoctype(source) /\ r.api_key = api_key
         THEN (CHOOSE r \in ApiRecords :
               r.doctype = SourceDoctype(source) /\ r.api_key = api_key).api_secret
         ELSE None

\* C4: the API-key stage changes the session identity or the API-key mark
\* only if the supplied secret equals the resolved secret; a mismatch leaves
\* both as they were.
C4_OnlyOnExactMatch ==
    [][pc = "validate_auth_via_api_keys" =>
         LET match == Supplied.ok /\ Supplied.api_secret = Resolved(Supplied.api_key)
         IN  /\ (user' /= user \/ api_user' /= api_user) => match
             /\ ~match => (user' = user /\ api_user' = api_user)
      ]_vars

\* For one key, a supplied secret that differs from the resolved one was
\* rejected and the right one was accepted.
C4_Witness ==
    /\ pc = "validate_auth_via_hooks"
    /\ ~api_user
    /\ IsAnonymous(user)
    /\ \E k \in DOMAIN keylog : \E i, j \in 1..Len(keylog[k]) :
          /\ keylog[k][i].resolved = "u1"
          /\ keylog[k][j].resolved = "NoMatch"
          /\ i < j

\* C5: while a key stays in the cache, if every validation of the key bore
\* the same secret and the same authorization source, valid for the stored
\* record, then every validation resolved the record's user and only the
\* first one called get_decrypted_password.
SameValidRequests(k) ==
    LET L == keylog[k]
    IN  /\ \A i \in 1..Len(L) :
              L[i].api_secret = L[1].api_secret /\ L[i].source = L[1].source
        /\ \E r \in ApiRecords :
              /\ r.doctype = SourceDoctype(L[1].source)
              /\ r.api_key = k
              /\ r.api_secret = L[1].api_secret
C5_DecryptOnce ==
    \A k \in DOMAIN keylog :
        SameValidRequests(k) =>
            \A i \in 1..Len(keylog[k]) :
                /\ keylog[k][i].decrypted = (i = 1)
                /\ \E r \in ApiRecords :
                      /\ r.doctype = SourceDoctype(keylog[k][1].source)
                      /\ r.api_key = k
                      /\ keylog[k][i].resolved = r.user

C5_Witness ==
    \E k \in DOMAIN keylog :
        /\ SameValidRequests(k)
        /\ Len(keylog[k]) >= 2
        /\ keylog[k][2].resolved = "u2"

\* C6: with a credential the token store does not know, the OAuth stage
\* raises nothing, leaves the session identity and the form parameters as
\* they are and hands the same header to the API-key stage; every request
\* with a two-token header that got past the OAuth stage has run the API-key
\* stage next.
UnknownToken == Len(HeaderParts) = 2 /\ ~OAuthKnown(HeaderParts[2])
C6_UnknownTokenFallsThrough ==
    /\ [][(pc = "validate_oauth" /\ UnknownToken) =>
            /\ error' = "None"
            /\ user' = user
            /\ form_dict' = form_dict
            /\ header' = header
            /\ pc' = "validate_auth_via_api_keys"]_vars
    /\ [](pc \in {"validate_auth_via_hooks", "done", "raised"}
            /\ Len(HeaderParts) = 2
          => /\ Len(trace) >= 2
             /\ trace[1] = "validate_oauth"
             /\ trace[2] = "validate_auth_via_api_keys")

\* After an unknown token the API-key stage authenticated the same header.
C6_Witness ==
    /\ UnknownToken
    /\ pc = "validate_auth_via_hooks"
    /\ trace = <<"validate_oauth", "validate_auth_via_api_keys">>
    /\ user = "u1"
    /\ form_dict /= EmptyDict


\* ----------------------------------------------------------- router claims
Segments == Split(IF path = <<>> THEN path ELSE Tail(path), "/")
Handled == pc \in {"responded", "failed"}
NotFound == pc = "failed" /\ error = "DoesNotExistError"

\* C7: a request whose second path segment is absent or is neither "method"
\* nor "resource" fails with DoesNotExistError and no collaborator is
\* called for it, however many segments follow.
C7_UnknownCallNotFound ==
    (Handled /\ (Len(Segments) < 2 \/ Segments[2] \notin { <<"m","e","t","h","o","d">>, <<"r","e","s","o","u","r","c","e">> }))
        => (NotFound /\ ops = <<>>)

\* The resource requests with a doctype: the identifier, the run_method
\* parameter and whether the three form a row of the dispatch matrix.
ResourceRequest ==
    /\ Len(Segments) \in {3, 4}
    /\ Segments[2] = <<"r","e","s","o","u","r","c","e">>
    /\ Segments[3] /= <<>>
HasIdentifier == Len(Segments) = 4 /\ Segments[4] /= <<>>
HasRunMethod == K_run_method \in DOMAIN req_form
MatrixRow ==
    \/ HasIdentifier /\ ~HasRunMethod /\ method \in {"GET", "PUT", "DELETE"}
    \/ HasIdentifier /\ HasRunMethod /\ method \in {"GET", "POST"}
    \/ ~HasIdentifier /\ method \in {"GET", "POST"}

\* C8: a resource request that is no row of the dispatch matrix fails with
\* DoesNotExistError.
C8_OffMatrixNotFound ==
    (Handled /\ ResourceRequest /\ ~MatrixRow) => NotFound

SingleGet ==
    ResourceRequest /\ HasIdentifier /\ ~HasRunMethod /\ method = "GET"
ListGet == ResourceRequest /\ ~HasIdentifier /\ method = "GET"
RoutedDoc == docs[<<Route(path).doctype, Route(path).name>>]

\* C9: a single-document GET without a fields parameter responds with the
\* whole record: every field as_dict yields of the document as the caller
\* may read it, and id.
C9_FullRecordWithoutFields ==
    (pc = "responded" /\ SingleGet /\ K_fields \notin DOMAIN req_form)
        => \E hidden \in HiddenFieldSets, default_fields \in DefaultFieldSets :
              Without(response[K_data], K_id) =
                  as_dict(apply_fieldlevel_read_permissions(RoutedDoc, hidden),
                          TRUE, TRUE, default_fields)

\* C10: the data of a single-document GET has name and id, both the
\* document's primary key; the data of a list GET has, for every record
\* get_list returned with a name, a record with id of that value and no
\* name.
C10_IdRenaming ==
    /\ (pc = "responded" /\ SingleGet) =>
          /\ K_name \in DOMAIN response[K_data]
          /\ K_id \in DOMAIN response[K_data]
          /\ response[K_data][K_name] = response[K_data][K_id]
          /\ response[K_data][K_id] = Route(path).name
    /\ (pc = "responded" /\ ListGet) =>
          /\ Len(response[K_data]) = Len(listed)
          /\ \A i \in 1..Len(listed) :
                K_name \in DOMAIN listed[i] =>
                    /\ K_id \in DOMAIN response[K_data][i]
                    /\ response[K_data][i][K_id] = listed[i][K_name]
                    /\ K_name \notin DOMAIN response[K_data][i]

\* The mutating resource requests: create, update, delete and POST
\* run_method; the store operations and the commits among the calls made.
Mutating ==
    \/ ~HasIdentifier /\ method = "POST"
    \/ HasIdentifier /\ ~HasRunMethod /\ method \in {"PUT", "DELETE"}
    \/ HasIdentifier /\ HasRunMethod /\ method = "POST"
IsCommit(o) == o = "commit"
IsStoreOp(o) == o \in {"save", "delete_doc", "run_method"}
Commits == SelectSeq(ops, IsCommit)

\* C11: a handled resource request has committed if and only if it is a
\* create, update, delete or POST run_method that ended without an error;
\* it has committed once, as its last call, after its store operations.  A
\* failed request and a GET request have not committed.
C11_CommitIffMutationSucceeded ==
    (Handled /\ ResourceRequest) =>
        /\ Len(Commits) <= 1
        /\ (Len(Commits) = 1) <=> (pc = "responded" /\ Mutating)
        /\ Len(Commits) = 1 =>
              /\ ops[Len(ops)] = "commit"
              /\ \E i \in 1..(Len(ops) - 1) : IsStoreOp(ops[i])
        /\ (pc = "failed" \/ method = "GET") => Commits = <<>>

\* A POST run_method ran the method and committed after it.
C11_Witness ==
    /\ pc = "responded"
    /\ ResourceRequest /\ HasIdentifier /\ HasRunMethod
    /\ method = "POST"
    /\ ops = <<"get_doc", "is_whitelisted", "has_permission", "run_method", "commit">>

UpdateRequest ==
    ResourceRequest /\ HasIdentifier /\ ~HasRunMethod /\ method = "PUT"
ChildRow(doc) == Get(doc, K_parenttype) \notin {None, <<>>}

\* C12: an update that ended without an error on a document that is, as
\* saved, a child-table row (its parenttype is neither null nor empty) has
\* loaded and saved the document, then loaded and saved the parent, then
\* committed; on any other document it has loaded and saved the document
\* and committed.  An update that stopped after the child's save stopped at
\* the reload of a parent the store does not have.
C12_ParentSavedAfterChild ==
    /\ (pc = "responded" /\ UpdateRequest) =>
          IF ChildRow(RoutedDoc)
          THEN ops = <<"get_doc", "save", "get_doc", "save", "commit">>
          ELSE ops = <<"get_doc", "save", "commit">>
    /\ (pc = "failed" /\ UpdateRequest /\ Len(ops) > 2) =>
          /\ ops = <<"get_doc", "save", "get_doc">>
          /\ ChildRow(RoutedDoc)
          /\ <<RoutedDoc[K_parenttype], Get(RoutedDoc, K_parent)>> \notin DOMAIN docs
          /\ error = "DoesNotExistError"

\* The update of the child-table row R1 of the Task T1.
C12_Witness ==
    /\ pc = "responded"
    /\ UpdateRequest
    /\ Route(path).doctype = Row
    /\ RoutedDoc[K_parent] = <<"T","1">>
    /\ ops = <<"get_doc", "save", "get_doc", "save", "commit">>

RunMethodRequest == ResourceRequest /\ HasIdentifier /\ HasRunMethod

\* C13: in a run_method request on a document, the method has been run
\* only if is_whitelisted passed and has_permission answered yes for the
\* verb's capability (read for GET, write for POST), both called before the
\* method; when one of the two refuses, the method is not run, the response
\* has no data, nothing is committed and the request fails.
C13_RunOnlyAfterChecks ==
    [][(pc = "handle" /\ RunMethodRequest) =>
         \A env \in Envs :
            handle_step(env) =>
               LET ran     == \E i \in 1..Len(ops') : ops'[i] = "run_method"
                   checked == /\ env.whitelisted
                              /\ method = "GET" => env.perm_read
                              /\ method = "POST" => env.perm_write
               IN  /\ ran =>
                         /\ checked
                         /\ method \in {"GET", "POST"}
                         /\ \E i, j, k \in 1..Len(ops') :
                               /\ i < j /\ j < k
                               /\ ops'[i] = "is_whitelisted"
                               /\ ops'[j] = "has_permission"
                               /\ ops'[k] = "run_method"
                   /\ ~checked =>
                         /\ ~ran
                         /\ K_data \notin DOMAIN response'
                         /\ \A i \in 1..Len(ops') : ops'[i] /= "commit"
                         /\ pc' = "failed"
      ]_vars

\* A POST run_method on an existing document whose write permission was
\* refused: the method was not run and the response is empty.
C13_Witness ==
    /\ pc = "failed"
    /\ RunMethodRequest
    /\ method = "POST"
    /\ error = "PermissionError"
    /\ ops = <<"get_doc", "is_whitelisted", "has_permission">>
    /\ response = EmptyDict

NoDoctype ==
    /\ Len(Segments) \in {2, 3}
    /\ Segments[2] = <<"r","e","s","o","u","r","c","e">>
    /\ Len(Segments) = 3 => Segments[3] = <<>>

\* C14: a resource call without a doctype, the third segment absent or
\* empty, fails with DoesNotExistError and no collaborator is called for it.
C14_NoDoctypeNotFound ==
    (Handled /\ NoDoctype) => (NotFound /\ ops = <<>>)

\* The tokens a fields parameter asks for: the items of the JSON array, or
\* the stripped pieces of the comma-separated list.
RequestedFields(f) ==
    IF Contains(f, "[") THEN Tail(json_loads(f).value)
    ELSE Tail(SplitFields(Split(f, ",")))
IsNotId(t) == t /= K_id

\* C15: the list _fields makes of a fields parameter, as a list GET hands
\* it to get_list, has no "id", ends with "name" and before that holds the
\* requested tokens other than "id" in their order.
C15_FieldsNoIdEndName ==
    (pc = "responded" /\ ListGet /\ Truthy(Get(req_form, K_fields))) =>
        LET L == form_dict[K_fields]
        IN  /\ ~Contains(L, K_id)
            /\ L[Len(L)] = K_name
            /\ SubSeq(L, 1, Len(L) - 1)
                  = SelectSeq(RequestedFields(req_form[K_fields]), IsNotId)

\* ------------------------------------------------ resolver claims, continued
\* C16: a header that does not split on " " into exactly two tokens (the
\* absent header is "") takes validate_auth straight to the hooks: neither
\* the OAuth nor the API-key stage runs, and when the first hook is due the
\* session identity, the API-key mark, the form parameters and the
\* credential cache are what they were when the request arrived and no
\* error is raised: only a hook can make such a request fail.
C16_MalformedHeaderSkipsCore ==
    /\ [][(pc = "validate_auth" /\ Len(HeaderParts) /= 2) =>
            /\ pc' = "validate_auth_via_hooks"
            /\ UNCHANGED <<user, api_user, form_dict, cache, keylog, error, trace>>]_vars
    /\ []((Len(HeaderParts) /= 2 /\ pc \in {"validate_auth_via_hooks", "done", "raised"})
            => /\ \A i \in 1..Len(trace) : trace[i] \notin CoreStages
               /\ pc = "raised" => (error = HookError /\ HooksRun /= <<>>)
               /\ HooksRun = <<>> =>
                     /\ IsAnonymous(user)
                     /\ ~api_user
                     /\ error = "None")

\* A header of three tokens (two spaces) went to the hooks with the form
\* parameters of the request.
C16_Witness ==
    /\ Len(HeaderParts) = 3
    /\ pc = "validate_auth_via_hooks"
    /\ trace = <<>>
    /\ form_dict /= EmptyDict

\* A two-token Basic or Token header whose credential decodes and does not
\* split on ":" into exactly two parts.
MalformedPair ==
    /\ Len(HeaderParts) = 2
    /\ LET scheme == Lower(HeaderParts[1])
           raw    == b64decode(HeaderParts[2])
           dec    == safe_decode(raw.bytes)
       IN  \/ /\ scheme = <<"b","a","s","i","c">>
              /\ raw.ok /\ dec.ok
              /\ Len(Split(dec.text, ":")) /= 2
           \/ /\ scheme = <<"t","o","k","e","n">>
              /\ Len(Split(HeaderParts[2], ":")) /= 2

\* C17: for such a credential the API-key stage raises nothing, neither
\* reads nor writes the credential cache (no validation is logged), leaves
\* the session identity and the API-key mark as they are and hands over to
\* the hooks, which run: all of them, or up to one that raises.
C17_BadPairAbsorbed ==
    /\ [][(pc = "validate_auth_via_api_keys" /\ MalformedPair) =>
            /\ error' = "None"
            /\ UNCHANGED <<cache, keylog, user, api_user>>
            /\ pc' = "validate_auth_via_hooks"]_vars
    /\ []((MalformedPair /\ Returned) =>
             /\ pc = "done" => HooksRun = auth_hooks
             /\ pc = "raised" => (error = HookError /\ HooksRun /= <<>>))

\* A Basic credential of three parts (a:b:c) was absorbed after the OAuth
\* stage; a valid pair of an earlier request is still in the cache.
C17_Witness ==
    /\ MalformedPair
    /\ Lower(HeaderParts[1]) = <<"b","a","s","i","c">>
    /\ pc = "done"
    /\ trace[2] = "validate_auth_via_api_keys"
    /\ ~api_user
    /\ DOMAIN cache = { <<"a">> }

\* What a validation resolves with an empty cache.
FreshResolved(api_key, api_secret, src) ==
    LET doctype == SourceDoctype(src)
        r       == ResolveSecret(doctype, api_key, EmptyDict)
    IN  IF api_secret = r.doc_secret
        THEN (IF doctype = "User" THEN r.doc ELSE UserOfRecord(doctype, r.doc))
        ELSE "NoMatch"

\* C19: every validation of a key resolved what it would have resolved
\* with an empty cache, whatever the earlier requests put in the cache.
C19_CacheTransparent ==
    \A k \in DOMAIN keylog : \A i \in 1..Len(keylog[k]) :
        keylog[k][i].resolved
            = FreshResolved(k, keylog[k][i].api_secret, keylog[k][i].source)

\* The stored record of the raced key.
RaceRecord == CHOOSE r \in ApiRecords : r.doctype = "User" /\ r.api_key = RaceKey

\* C18: however the validations of one key interleave, the cache entry,
\* once written, is the stored (user, secret) pair, and when all have
\* ended every request with the stored secret is authenticated as the
\* key's user and every other request is not authenticated.
C18_RaceOnlyRedundant ==
    /\ hget(cache, RaceKey) =>
          cache[RaceKey] = [user |-> RaceRecord.name, api_secret |-> RaceRecord.api_secret]
    /\ (\A w \in DOMAIN workers : workers[w].pc = "done") =>
          /\ hget(cache, RaceKey)
          /\ \A w \in DOMAIN workers :
                IF workers[w].api_secret = RaceRecord.api_secret
                THEN workers[w].user = RaceRecord.user /\ workers[w].api_user
                ELSE workers[w].user = "Guest" /\ ~workers[w].api_user

\* Two requests missed the cache together and both decrypted the secret;
\* the one with the right secret is authenticated, the other is not.
C18_Witness ==
    /\ \A w \in DOMAIN workers : workers[w].pc = "done"
    /\ workers[1].decrypted /\ workers[2].decrypted
    /\ workers[1].api_secret = <<"b">> /\ workers[1].user = "u1"
    /\ workers[2].api_secret = <<"c">> /\ ~workers[2].api_user

====
